---- MODULE Spec2Model ----
(***************************************************************************)
(* LaughRx: the keyword classifiers (function_calling.py,                  *)
(* chain_of_thought.py, temperature_control.py), the structured-output     *)
(* post-processor (structured_output.py) and the generate_response         *)
(* operations (ai_integration.py, ai_integration_simple.py).               *)
(*                                                                         *)
(* Texts are TLA+ strings; `in` of Python is substring containment and     *)
(* str.lower() is computed character by character.  Numbers with one       *)
(* decimal (temperature, confidence_score) are kept in tenths.             *)
(***************************************************************************)
EXTENDS Integers, Sequences, FiniteSets, TLC

VARIABLES
    pc,               \* "ready" before the call, "done" after it returned or raised
    fn,               \* name of the operation that was applied ("" before the call)
    symptoms,         \* the symptoms text of the call
    duration,         \* Optional[str] argument of analyze_symptom_severity
    intensity,        \* Optional[int] argument of analyze_symptom_severity
    ai_response,      \* model output handed to parse_ai_response (sequence of tokens)
    response,         \* the LaughRxResponse that to_json encodes (None when there is none)
    dynamic_options,  \* argument of LaughRxAISimple.generate_response
    user_context,     \* argument of LaughRxAI.generate_response
    response_type,    \* argument of LaughRxAI.generate_response
    model,            \* what the hosted model does when it is invoked
    client,           \* the LaughRxAISimple instance: top_p, top_k, stop sequences, system prompt
    invocations,      \* the invocations of the hosted model, in order
    env,              \* the process environment read at construction
    responses,        \* the HTTP responses the server has produced, in order
    weight_kg,        \* argument of calculate_bmi
    height_cm,        \* argument of calculate_bmi
    reasoning_type,   \* argument of generate_chain_of_thought
    function_name,    \* argument of call_function
    kwargs,           \* keyword arguments of call_function
    result            \* the value the call returned, or the exception it raised

\* arguments of analyze_symptom_severity
severityArgs == <<duration, intensity>>
\* the post-processor's input
parseVars == <<ai_response, response>>
\* arguments and collaborators of the generate_response operations
generateVars == <<dynamic_options, user_context, response_type, model, client, invocations>>

\* the HTTP server's environment and output
serverVars == <<env, responses>>
\* arguments of calculate_bmi
bmiArgs == <<weight_kg, height_cm>>
\* the template name given to generate_chain_of_thought
cotArgs == <<reasoning_type>>
\* arguments of call_function
callArgs == <<function_name, kwargs>>

vars == <<pc, fn, symptoms, severityArgs, parseVars, generateVars, serverVars, bmiArgs, cotArgs, callArgs, result>>

-----------------------------------------------------------------------------
(* Bounds *)

\* number of vocabulary fragments joined into one symptoms text
MaxFrags == 2

\* number of free-text tokens the model writes before and after the JSON object
MaxWrap == 1

\* length of the tags list of an encoded LaughRxResponse
MaxTags == 2

-----------------------------------------------------------------------------
(* Python values *)

\* Python's None; Some(v) wraps a present optional value
None == [none |-> TRUE]
Some(v) == [some |-> v]
IsNone(o) == "none" \in DOMAIN o

NoResult == [kind |-> "none"]
Returned(v) == [kind |-> "return", value |-> v]
\* an exception that leaves the operation
Raised(e) == [kind |-> "raise", exception |-> e]

\* an exception object: its class and str(e)
Exception(type, msg) == [type |-> type, msg |-> msg]

\* the outcome of a step inside an operation: a value, or a raised exception
Ok(v) == [ok |-> TRUE, value |-> v]
Raise(type, msg) == [ok |-> FALSE, exception |-> Exception(type, msg)]

PyStr(s) == [py |-> "str", s |-> s]
\* numbers are kept in tenths: PyFloat(5) is 0.5, PyInt(10) is 1
PyFloat(n) == [py |-> "float", n |-> n]
PyInt(n) == [py |-> "int", n |-> n]
PyBool(b) == [py |-> "bool", b |-> b]
PyList(items) == [py |-> "list", items |-> items]
\* a member of an Enum class
PyEnum(cls, name) == [py |-> "enum", cls |-> cls, name |-> name]

IsNumber(v) == ~IsNone(v) /\ v.py \in {"float", "int"}

\* Python's == on the values above (1 == 1.0; lists compare element by element)
RECURSIVE PyEq(_, _)
PyEq(a, b) ==
    IF IsNone(a) \/ IsNone(b) THEN IsNone(a) /\ IsNone(b)
    ELSE IF IsNumber(a) /\ IsNumber(b) THEN a.n = b.n
    ELSE IF a.py = "list" /\ b.py = "list"
    THEN /\ Len(a.items) = Len(b.items)
         /\ \A i \in DOMAIN a.items : PyEq(a.items[i], b.items[i])
    ELSE a = b

-----------------------------------------------------------------------------
(* str operations *)

UpperAlphabet == "ABCDEFGHIJKLMNOPQRSTUVWXYZ"
LowerAlphabet == "abcdefghijklmnopqrstuvwxyz"

\* `k in t` for two str values
Contains(t, k) ==
    \E i \in 1..(Len(t) - Len(k) + 1) : SubSeq(t, i, i + Len(k) - 1) = k

LowerChar(c) ==
    IF \E i \in 1..26 : SubSeq(UpperAlphabet, i, i) = c
    THEN LET i == CHOOSE j \in 1..26 : SubSeq(UpperAlphabet, j, j) = c
         IN  SubSeq(LowerAlphabet, i, i)
    ELSE c

RECURSIVE LowerFrom(_, _)
LowerFrom(s, i) ==
    IF i > Len(s) THEN "" ELSE LowerChar(SubSeq(s, i, i)) \o LowerFrom(s, i + 1)

\* a mutant of Lower: the text is matched as typed
LowerAsTyped(s) == s

\* s.lower()
Lower(s) == LowerFrom(s, 1)

\* any(keyword in text for keyword in keywords)
AnyKeywordIn(keywords, text) ==
    \E i \in DOMAIN keywords : Contains(text, keywords[i])

-----------------------------------------------------------------------------
(* function_calling.py: LaughRxFunctionCalling *)

fc_emergency_keywords ==
    << "chest pain", "difficulty breathing", "severe headache", "loss of consciousness",
       "severe bleeding", "stroke symptoms", "heart attack" >>

fc_high_severity ==
    << "persistent fever", "severe pain", "vision changes", "severe dizziness" >>

fc_moderate_severity ==
    << "headache", "back pain", "fatigue", "nausea", "muscle pain" >>

\* _identify_risk_factors(symptoms): symptoms is already lowercased by the caller
_identify_risk_factors(s) ==
    (IF Contains(s, "chest") THEN << "Cardiovascular concern" >> ELSE << >>)
    \o (IF Contains(s, "headache") /\ Contains(s, "severe")
        THEN << "Neurological concern" >> ELSE << >>)
    \o (IF Contains(s, "breathing") THEN << "Respiratory concern" >> ELSE << >>)

\* the keyword cascade of analyze_symptom_severity (lines 196-211)
KeywordSeverity(symptoms_lower) ==
    IF AnyKeywordIn(fc_emergency_keywords, symptoms_lower)
    THEN [severity_level |-> "emergency", urgency |-> "immediate",
          recommendations |-> << "Seek immediate medical attention",
                                 "Call emergency services if severe" >>]
    ELSE IF AnyKeywordIn(fc_high_severity, symptoms_lower)
    THEN [severity_level |-> "high", urgency |-> "urgent",
          recommendations |-> << "Consult healthcare provider within 24 hours",
                                 "Monitor symptoms closely" >>]
    ELSE IF AnyKeywordIn(fc_moderate_severity, symptoms_lower)
    THEN [severity_level |-> "moderate", urgency |-> "routine",
          recommendations |-> << "Self-care measures appropriate",
                                 "See doctor if symptoms persist" >>]
    ELSE [severity_level |-> "low", urgency |-> "routine", recommendations |-> << >>]

\* `if duration and ("weeks" in duration or "months" in duration)` (line 214)
DurationIsLong(d) ==
    /\ ~IsNone(d)
    /\ Len(d.some) > 0
    /\ (Contains(d.some, "weeks") \/ Contains(d.some, "months"))

\* `if intensity and intensity >= 8` (line 218)
IntensityIsHigh(n) ==
    /\ ~IsNone(n)
    /\ n.some # 0
    /\ n.some >= 8

\* a mutant of IntensityAdjust: the intensity escalation overwrites every level
IntensityAdjustUnguarded(r, n) ==
    IF IntensityIsHigh(n)
    THEN [r EXCEPT !.severity_level = "high", !.urgency = "urgent"]
    ELSE r

\* a mutant of IntensityAdjust: the escalation forgets the urgency
IntensityAdjustSeverityOnly(r, n) ==
    IF IntensityIsHigh(n) /\ r.severity_level # "emergency"
    THEN [r EXCEPT !.severity_level = "high"]
    ELSE r

\* lines 218-221
IntensityAdjust(r, n) ==
    IF IntensityIsHigh(n) /\ r.severity_level # "emergency"
    THEN [r EXCEPT !.severity_level = "high", !.urgency = "urgent"]
    ELSE r

\* lines 214-216
DurationAdjust(r, d) ==
    IF DurationIsLong(d) /\ r.severity_level = "low"
    THEN [r EXCEPT !.severity_level = "moderate"]
    ELSE r

analyze_symptom_severity(s, d, n) ==
    LET symptoms_lower == Lower(s)
        r == IntensityAdjust(DurationAdjust(KeywordSeverity(symptoms_lower), d), n)
    IN  [severity_level |-> r.severity_level,
         urgency |-> r.urgency,
         risk_factors |-> _identify_risk_factors(symptoms_lower),
         recommendations |-> r.recommendations,
         follow_up_needed |-> r.severity_level \in {"high", "emergency"}]

\* emergency_indicators of check_emergency_symptoms, in dict order
emergency_categories == << "cardiac", "neurological", "respiratory", "bleeding", "allergic" >>

emergency_indicators(category) ==
    CASE category = "cardiac" -> << "chest pain", "heart attack", "severe chest pressure" >>
      [] category = "neurological" ->
             << "stroke", "severe headache", "loss of consciousness", "confusion" >>
      [] category = "respiratory" ->
             << "difficulty breathing", "shortness of breath", "can't breathe" >>
      [] category = "bleeding" -> << "severe bleeding", "heavy bleeding", "blood loss" >>
      [] category = "allergic" ->
             << "severe allergic reaction", "anaphylaxis", "swelling throat" >>

InSeq(x, seq) == \E i \in DOMAIN seq : seq[i] = x

_get_emergency_actions(emergency_types) ==
    << "Call 911 immediately" >>
    \o (IF InSeq("cardiac", emergency_types) THEN << "If available, take aspirin" >> ELSE << >>)
    \o (IF InSeq("respiratory", emergency_types)
        THEN << "Sit upright, loosen tight clothing" >> ELSE << >>)
    \o (IF InSeq("allergic", emergency_types) THEN << "Use EpiPen if available" >> ELSE << >>)

\* a mutant of check_emergency_symptoms: the text is matched as typed
check_emergency_symptoms_as_typed(s) ==
    LET detected_emergencies ==
            SelectSeq(emergency_categories, LAMBDA c : AnyKeywordIn(emergency_indicators(c), s))
    IN  [is_emergency |-> Len(detected_emergencies) > 0,
         emergency_types |-> detected_emergencies,
         immediate_actions |-> _get_emergency_actions(detected_emergencies),
         call_911 |-> Len(detected_emergencies) > 0,
         urgency_level |-> IF Len(detected_emergencies) > 0 THEN "CRITICAL" ELSE "NORMAL"]

check_emergency_symptoms(s) ==
    LET symptoms_lower == Lower(s)
        detected_emergencies ==
            SelectSeq(emergency_categories,
                      LAMBDA c : AnyKeywordIn(emergency_indicators(c), symptoms_lower))
        is_emergency == Len(detected_emergencies) > 0
    IN  [is_emergency |-> is_emergency,
         emergency_types |-> detected_emergencies,
         immediate_actions |-> _get_emergency_actions(detected_emergencies),
         call_911 |-> is_emergency,
         urgency_level |-> IF is_emergency THEN "CRITICAL" ELSE "NORMAL"]

-----------------------------------------------------------------------------
(* chain_of_thought.py: LaughRxChainOfThought._determine_reasoning_type *)

cot_emergency_keywords == << "chest pain", "difficulty breathing", "severe", "can't breathe" >>
cot_symptom_words == << "headache", "pain", "tired", "nausea", "dizzy" >>
cot_lifestyle_keywords == << "work", "desk", "computer", "stress", "sleep", "posture" >>
cot_wellness_keywords == << "improve", "better", "healthy", "prevent", "optimize" >>

\* len([word for word in [...] if word in symptoms_lower])
symptom_count(symptoms_lower) ==
    Len(SelectSeq(cot_symptom_words, LAMBDA w : Contains(symptoms_lower, w)))

\* a mutant of _determine_reasoning_type: the symptom count is tested first
_determine_reasoning_type_count_first(s) ==
    LET symptoms_lower == Lower(s)
    IN  IF symptom_count(symptoms_lower) >= 2 THEN "complex_multi_symptom"
        ELSE IF AnyKeywordIn(cot_emergency_keywords, symptoms_lower)
        THEN "emergency_assessment"
        ELSE IF AnyKeywordIn(cot_lifestyle_keywords, symptoms_lower) THEN "lifestyle_related"
        ELSE IF AnyKeywordIn(cot_wellness_keywords, symptoms_lower)
        THEN "wellness_optimization"
        ELSE "simple_symptom"

\* the user_context argument is never read
_determine_reasoning_type(s) ==
    LET symptoms_lower == Lower(s)
    IN  IF AnyKeywordIn(cot_emergency_keywords, symptoms_lower) THEN "emergency_assessment"
        ELSE IF symptom_count(symptoms_lower) >= 2 THEN "complex_multi_symptom"
        ELSE IF AnyKeywordIn(cot_lifestyle_keywords, symptoms_lower) THEN "lifestyle_related"
        ELSE IF AnyKeywordIn(cot_wellness_keywords, symptoms_lower)
        THEN "wellness_optimization"
        ELSE "simple_symptom"

-----------------------------------------------------------------------------
(* temperature_control.py: LaughRxTemperatureControl *)

tc_emergency_keywords ==
    << "chest pain", "heart attack", "can't breathe", "shortness of breath",
       "severe bleeding", "unconscious", "stroke", "seizure", "overdose",
       "severe allergic reaction", "choking" >>

tc_serious_keywords ==
    << "chronic pain", "depression", "anxiety", "medication", "prescription",
       "blood pressure", "diabetes", "cancer", "tumor", "infection" >>

tc_wellness_keywords ==
    << "exercise", "diet", "nutrition", "weight loss", "fitness",
       "healthy habits", "lifestyle", "prevention", "wellness" >>

\* the user_context argument is never read
determine_context(s) ==
    LET symptoms_lower == Lower(s)
    IN  IF AnyKeywordIn(tc_emergency_keywords, symptoms_lower) THEN "EMERGENCY"
        ELSE IF AnyKeywordIn(tc_serious_keywords, symptoms_lower) THEN "SERIOUS_MEDICAL"
        ELSE IF AnyKeywordIn(tc_wellness_keywords, symptoms_lower) THEN "WELLNESS_TIP"
        ELSE "GENERAL_HEALTH"

\* a mutant of temperature_configs: EMERGENCY takes TemperatureLevel.CONSERVATIVE (0.2)
temperature_configs_conservative(context) ==
    CASE context = "EMERGENCY" -> [context |-> "EMERGENCY", temperature |-> 2]
      [] context = "SERIOUS_MEDICAL" -> [context |-> "SERIOUS_MEDICAL", temperature |-> 3]
      [] context = "GENERAL_HEALTH" -> [context |-> "GENERAL_HEALTH", temperature |-> 5]
      [] context = "WELLNESS_TIP" -> [context |-> "WELLNESS_TIP", temperature |-> 6]
      [] context = "HUMOR_ROAST" -> [context |-> "HUMOR_ROAST", temperature |-> 8]

\* _create_temperature_configs: temperature in tenths
temperature_configs(context) ==
    CASE context = "EMERGENCY" -> [context |-> "EMERGENCY", temperature |-> 1]
      [] context = "SERIOUS_MEDICAL" -> [context |-> "SERIOUS_MEDICAL", temperature |-> 3]
      [] context = "GENERAL_HEALTH" -> [context |-> "GENERAL_HEALTH", temperature |-> 5]
      [] context = "WELLNESS_TIP" -> [context |-> "WELLNESS_TIP", temperature |-> 6]
      [] context = "HUMOR_ROAST" -> [context |-> "HUMOR_ROAST", temperature |-> 8]

get_temperature_config(s) == temperature_configs(determine_context(s))

-----------------------------------------------------------------------------
(* Inputs of the classifiers *)

\* fragments that are joined, in every order, into symptoms texts
Vocabulary ==
    { "chest pain", "Heart Attack", "severe headache", "severe pain", "headache",
      "tired", "severe", "can't breathe", "work", "improve", "exercise",
      "exercising", "depression", "mild" }

RECURSIVE JoinedTexts(_)
JoinedTexts(n) ==
    IF n = 0 THEN { "" }
    ELSE LET shorter == JoinedTexts(n - 1)
         IN  shorter \cup { IF t = "" THEN f ELSE t \o " " \o f : t \in shorter, f \in Vocabulary }

SeqRange(seq) == { seq[i] : i \in DOMAIN seq }

\* every keyword of every list
AllKeywords ==
    SeqRange(fc_emergency_keywords) \cup SeqRange(fc_high_severity)
    \cup SeqRange(fc_moderate_severity)
    \cup UNION { SeqRange(emergency_indicators(emergency_categories[i])) :
                 i \in DOMAIN emergency_categories }
    \cup SeqRange(cot_emergency_keywords) \cup SeqRange(cot_symptom_words)
    \cup SeqRange(cot_lifestyle_keywords) \cup SeqRange(cot_wellness_keywords)
    \cup SeqRange(tc_emergency_keywords) \cup SeqRange(tc_serious_keywords)
    \cup SeqRange(tc_wellness_keywords)

ChestPainText == "I have chest pain and can't breathe"
ExercisingText == "I want to start exercising but don't know where to begin"

ScenarioTexts ==
    { ChestPainText, ExercisingText, "I have a headache", "mild headache with chest pain",
      "I have a Headache and my desk job is Stressful, SEVERE CHEST PAIN too" }

SymptomTexts ==
    JoinedTexts(MaxFrags)
    \cup AllKeywords
    \cup { "mild headache with " \o k : k \in SeqRange(fc_emergency_keywords) }
    \cup ScenarioTexts

Durations == { None, Some(""), Some("2 days"), Some("3 weeks"), Some("2 months") }
Intensities == { None, Some(0), Some(5), Some(8), Some(10) }

-----------------------------------------------------------------------------
(* The classifiers applied to one symptoms text *)

NoModel == [outcome |-> "unused", detail |-> ""]

\* no client is constructed and no generate_response argument is set
NoGenerate ==
    /\ dynamic_options = None
    /\ user_context = None
    /\ response_type = ""
    /\ model = NoModel
    /\ client = None
    /\ invocations = << >>

\* an environment with no setting
NoEnv == [GEMINI_API_KEY |-> None, TOP_P |-> None, TOP_K |-> None, STOP_SEQUENCES |-> None]

\* no server runs
NoServer ==
    /\ env = NoEnv
    /\ responses = << >>

\* generate_chain_of_thought has no arguments
NoCot == reasoning_type = ""

\* call_function has no arguments
NoCall ==
    /\ function_name = ""
    /\ kwargs = None

\* calculate_bmi has no arguments
NoBmi ==
    /\ weight_kg = None
    /\ height_cm = None

InitClassify ==
    /\ pc = "ready"
    /\ fn = ""
    /\ symptoms \in SymptomTexts
    /\ duration = None
    /\ intensity = None
    /\ ai_response = << >>
    /\ response = None
    /\ NoGenerate
    /\ NoServer
    /\ NoBmi
    /\ NoCot
    /\ NoCall
    /\ result = NoResult

Return(name, value) ==
    /\ fn' = name
    /\ result' = Returned(value)
    /\ pc' = "done"

AnalyzeSymptomSeverity ==
    /\ pc = "ready"
    /\ \E d \in Durations, n \in Intensities :
          /\ duration' = d
          /\ intensity' = n
          /\ Return("analyze_symptom_severity", analyze_symptom_severity(symptoms, d, n))
    /\ UNCHANGED <<serverVars, bmiArgs, cotArgs, callArgs, symptoms, parseVars, generateVars>>

CheckEmergencySymptoms ==
    /\ pc = "ready"
    /\ Return("check_emergency_symptoms", check_emergency_symptoms(symptoms))
    /\ UNCHANGED <<serverVars, bmiArgs, cotArgs, callArgs, symptoms, severityArgs, parseVars, generateVars>>

DetermineReasoningType ==
    /\ pc = "ready"
    /\ Return("_determine_reasoning_type", _determine_reasoning_type(symptoms))
    /\ UNCHANGED <<serverVars, bmiArgs, cotArgs, callArgs, symptoms, severityArgs, parseVars, generateVars>>

DetermineContext ==
    /\ pc = "ready"
    /\ Return("determine_context", determine_context(symptoms))
    /\ UNCHANGED <<serverVars, bmiArgs, cotArgs, callArgs, symptoms, severityArgs, parseVars, generateVars>>

GetTemperatureConfig ==
    /\ pc = "ready"
    /\ Return("get_temperature_config", get_temperature_config(symptoms))
    /\ UNCHANGED <<serverVars, bmiArgs, cotArgs, callArgs, symptoms, severityArgs, parseVars, generateVars>>

NextClassify ==
    \/ AnalyzeSymptomSeverity
    \/ CheckEmergencySymptoms
    \/ DetermineReasoningType
    \/ DetermineContext
    \/ GetTemperatureConfig

SpecClassify == InitClassify /\ [][NextClassify]_vars

Called(name) == pc = "done" /\ fn = name

-----------------------------------------------------------------------------
(* Claims about the classifiers, checked under SpecClassify *)

\* the emergency keywords as the claim C1 lists them
C1_EmergencyKeywords ==
    { "chest pain", "difficulty breathing", "severe headache", "loss of consciousness",
      "severe bleeding", "stroke symptoms", "heart attack" }

C1_HasEmergencyKeyword ==
    \E k \in C1_EmergencyKeywords : Contains(Lower(symptoms), k)

\* C1: whenever the lowercased symptoms contain an emergency keyword,
\* analyze_symptom_severity returns severity_level "emergency", for every
\* duration and intensity and whatever other severity keywords occur.
C1_EmergencyOverrides ==
    (Called("analyze_symptom_severity") /\ C1_HasEmergencyKeyword)
        => result.value.severity_level = "emergency"

\* C1 witness: an emergency keyword next to high and moderate keywords, a long
\* duration and an intensity of at least 8, classified emergency.
C1_Witness ==
    /\ Called("analyze_symptom_severity")
    /\ C1_HasEmergencyKeyword
    /\ Contains(Lower(symptoms), "severe pain")
    /\ ~IsNone(intensity) /\ intensity.some >= 8
    /\ result.value.severity_level = "emergency"

C2_ReasoningTypes ==
    { "emergency_assessment", "complex_multi_symptom", "lifestyle_related",
      "wellness_optimization", "simple_symptom" }

C2_SymptomWords == { "headache", "pain", "tired", "nausea", "dizzy" }

C2_Expected(text) ==
    LET has_emergency == \E k \in SeqRange(cot_emergency_keywords) : Contains(text, k)
        words == { w \in C2_SymptomWords : Contains(text, w) }
        has_lifestyle == \E k \in SeqRange(cot_lifestyle_keywords) : Contains(text, k)
        has_wellness == \E k \in SeqRange(cot_wellness_keywords) : Contains(text, k)
    IN  CASE has_emergency -> "emergency_assessment"
          [] ~has_emergency /\ Cardinality(words) >= 2 -> "complex_multi_symptom"
          [] ~has_emergency /\ Cardinality(words) < 2 /\ has_lifestyle -> "lifestyle_related"
          [] ~has_emergency /\ Cardinality(words) < 2 /\ ~has_lifestyle /\ has_wellness ->
                 "wellness_optimization"
          [] OTHER -> "simple_symptom"

\* C2: _determine_reasoning_type returns one of the five categories, chosen by
\* the priority emergency > two symptom words > lifestyle > wellness > default.
C2_ReasoningTypePriority ==
    Called("_determine_reasoning_type")
        => /\ result.value \in C2_ReasoningTypes
           /\ result.value = C2_Expected(Lower(symptoms))

\* C2 witness: an emergency keyword together with two symptom words and a
\* lifestyle keyword, classified emergency_assessment.
C2_Witness ==
    /\ Called("_determine_reasoning_type")
    /\ Contains(Lower(symptoms), "severe")
    /\ Contains(Lower(symptoms), "headache")
    /\ Contains(Lower(symptoms), "pain")
    /\ Contains(Lower(symptoms), "desk")
    /\ result.value = "emergency_assessment"

\* C3: for "I want to start exercising but don't know where to begin" the
\* reasoning type is wellness_optimization, the temperature context is
\* WELLNESS_TIP and check_emergency_symptoms reports no emergency.
C3_ExercisingIsWellness ==
    (pc = "done" /\ symptoms = ExercisingText)
        => /\ fn = "_determine_reasoning_type" => result.value = "wellness_optimization"
           /\ fn = "determine_context" => result.value = "WELLNESS_TIP"
           /\ fn = "check_emergency_symptoms"
                 => /\ ~result.value.is_emergency
                    /\ ~result.value.call_911
                    /\ result.value.emergency_types = << >>

\* C4: for "I have chest pain and can't breathe" every classifier reports
\* the emergency: emergency_assessment, severity emergency, context EMERGENCY
\* at temperature 0.1, call_911.
C4_ChestPainIsEmergency ==
    (pc = "done" /\ symptoms = ChestPainText)
        => /\ fn = "_determine_reasoning_type" => result.value = "emergency_assessment"
           /\ fn = "analyze_symptom_severity" => result.value.severity_level = "emergency"
           /\ fn = "get_temperature_config"
                 => result.value = [context |-> "EMERGENCY", temperature |-> 1]
           /\ fn = "determine_context" => result.value = "EMERGENCY"
           /\ fn = "check_emergency_symptoms" => result.value.call_911

\* C4 witness: the temperature configuration of the chest pain input.
C4_Witness ==
    /\ Called("get_temperature_config")
    /\ symptoms = ChestPainText
    /\ result.value.context = "EMERGENCY"
    /\ result.value.temperature = 1

-----------------------------------------------------------------------------
(* JSON text.  A text is a sequence of tokens: the two brace characters,   *)
(* a run of characters without braces, and the members `"key": value` of   *)
(* an object (separators included).                                        *)

LBrace == [tok |-> "{"]
RBrace == [tok |-> "}"]
Text(s) == [tok |-> "text", s |-> s]
Member(k, v) == [tok |-> "member", key |-> k, value |-> v]

JStr(s) == [json |-> "string", s |-> s]
\* a number literal in tenths; float: written with a decimal point
JNum(n, float) == [json |-> "number", n |-> n, float |-> float]
JBool(b) == [json |-> "bool", b |-> b]
JArr(items) == [json |-> "array", items |-> items]
JNull == [json |-> "null"]

\* json.dumps of one value
RECURSIVE dumps_value(_)
dumps_value(v) ==
    IF IsNone(v) THEN JNull
    ELSE IF v.py = "str" THEN JStr(v.s)
    ELSE IF v.py = "float" THEN JNum(v.n, TRUE)
    ELSE IF v.py = "int" THEN JNum(v.n, FALSE)
    ELSE IF v.py = "bool" THEN JBool(v.b)
    ELSE JArr([i \in DOMAIN v.items |-> dumps_value(v.items[i])])

\* json.loads of one value
RECURSIVE loads_value(_)
loads_value(j) ==
    IF j.json = "null" THEN None
    ELSE IF j.json = "string" THEN PyStr(j.s)
    ELSE IF j.json = "number" THEN (IF j.float THEN PyFloat(j.n) ELSE PyInt(j.n))
    ELSE IF j.json = "bool" THEN PyBool(j.b)
    ELSE PyList([i \in DOMAIN j.items |-> loads_value(j.items[i])])

\* json.loads(text): a dict (a function on the keys that occur; the last
\* occurrence of a key wins) or JSONDecodeError
json_loads(text) ==
    IF /\ Len(text) >= 2
       /\ text[1] = LBrace
       /\ text[Len(text)] = RBrace
       /\ \A i \in 2..(Len(text) - 1) : text[i].tok = "member"
    THEN LET keys == { text[i].key : i \in 2..(Len(text) - 1) }
             last(k) == CHOOSE i \in 2..(Len(text) - 1) :
                           /\ text[i].key = k
                           /\ \A j \in (i + 1)..(Len(text) - 1) : text[j].key # k
         IN  Ok([k \in keys |-> loads_value(text[last(k)].value)])
    ELSE Raise("JSONDecodeError", "Expecting value")

-----------------------------------------------------------------------------
(* structured_output.py *)

\* Enum classes: member name -> value
SeverityLevel ==
    [LOW |-> "low", MODERATE |-> "moderate", HIGH |-> "high", URGENT |-> "urgent"]

ResponseType ==
    [ROAST_AND_ADVICE |-> "roast_and_advice", SERIOUS_CONCERN |-> "serious_concern",
     WELLNESS_TIP |-> "wellness_tip", EMERGENCY_REDIRECT |-> "emergency_redirect"]

EnumClass(cls) == IF cls = "SeverityLevel" THEN SeverityLevel ELSE ResponseType

\* cls(value): the member with that value, or ValueError
EnumLookup(cls, v) ==
    IF /\ ~IsNone(v)
       /\ v.py = "str"
       /\ \E name \in DOMAIN EnumClass(cls) : EnumClass(cls)[name] = v.s
    THEN Ok(PyEnum(cls, CHOOSE name \in DOMAIN EnumClass(cls) : EnumClass(cls)[name] = v.s))
    ELSE Raise("ValueError", "not a valid " \o cls)

\* member.value
EnumValue(e) == EnumClass(e.cls)[e.name]

Digits == "0123456789"
IsDigit(c) == \E i \in 1..10 : SubSeq(Digits, i, i) = c
DigitValue(c) == (CHOOSE i \in 1..10 : SubSeq(Digits, i, i) = c) - 1

AllDigits(s) == Len(s) > 0 /\ \A i \in 1..Len(s) : IsDigit(SubSeq(s, i, i))

RECURSIVE DigitsValue(_, _)
DigitsValue(s, n) ==
    IF n = 0 THEN 0 ELSE 10 * DigitsValue(s, n - 1) + DigitValue(SubSeq(s, n, n))

\* float(str) for decimal literals with at most one fractional digit, in
\* tenths; every other string of the input sets is not a number
ParseFloat(s) ==
    LET negative == Len(s) > 0 /\ SubSeq(s, 1, 1) = "-"
        body == IF negative THEN SubSeq(s, 2, Len(s)) ELSE s
        dotted == Len(body) >= 3 /\ SubSeq(body, Len(body) - 1, Len(body) - 1) = "."
        whole == IF dotted THEN SubSeq(body, 1, Len(body) - 2) ELSE body
        frac == IF dotted THEN SubSeq(body, Len(body), Len(body)) ELSE "0"
    IN  IF AllDigits(whole) /\ AllDigits(frac)
        THEN LET tenths == 10 * DigitsValue(whole, Len(whole)) + DigitValue(frac)
             IN  Ok(PyFloat(IF negative THEN 0 - tenths ELSE tenths))
        ELSE Raise("ValueError", "could not convert string to float")

\* float(v)
float(v) ==
    IF IsNone(v) THEN Raise("TypeError", "float() argument must be a string or a real number")
    ELSE IF v.py \in {"float", "int"} THEN Ok(PyFloat(v.n))
    ELSE IF v.py = "bool" THEN Ok(PyFloat(IF v.b THEN 10 ELSE 0))
    ELSE IF v.py = "str" THEN ParseFloat(v.s)
    ELSE Raise("TypeError", "float() argument must be a string or a real number")

medical_disclaimer ==
    "This is for entertainment purposes only. Always consult a healthcare professional for medical concerns."

\* the fields of the dataclass LaughRxResponse, in order
ResponseFields ==
    << "roast", "diagnosis", "advice", "severity", "response_type", "confidence_score",
       "tags", "medical_disclaimer", "follow_up_questions" >>

LaughRxResponse(ro, di, ad, se, rt, cs, tg, md, fu) ==
    [roast |-> ro, diagnosis |-> di, advice |-> ad, severity |-> se, response_type |-> rt,
     confidence_score |-> cs, tags |-> tg, medical_disclaimer |-> md,
     follow_up_questions |-> fu]

\* a mutant of to_json: the enums are written by name, not by value
to_json_by_name(r) ==
    LET data == [r EXCEPT !.severity = PyStr(r.severity.name),
                          !.response_type = PyStr(r.response_type.name)]
    IN  << LBrace >>
        \o [i \in DOMAIN ResponseFields |->
               Member(ResponseFields[i], dumps_value(data[ResponseFields[i]]))]
        \o << RBrace >>

\* LaughRxResponse.to_json: asdict, the enums replaced by their values, json.dumps
to_json(r) ==
    LET data == [r EXCEPT !.severity = PyStr(EnumValue(r.severity)),
                          !.response_type = PyStr(EnumValue(r.response_type))]
    IN  << LBrace >>
        \o [i \in DOMAIN ResponseFields |->
               Member(ResponseFields[i], dumps_value(data[ResponseFields[i]]))]
        \o << RBrace >>

\* str.find / str.rfind of one character: 0-based index, -1 when absent
find(text, t) ==
    IF \E i \in DOMAIN text : text[i] = t
    THEN (CHOOSE i \in DOMAIN text : text[i] = t /\ \A j \in 1..(i - 1) : text[j] # t) - 1
    ELSE -1

\* a mutant of rfind: the first occurrence is taken
rfind_first(text, t) ==
    IF \E i \in DOMAIN text : text[i] = t
    THEN (CHOOSE i \in DOMAIN text : text[i] = t /\ \A j \in 1..(i - 1) : text[j] # t) - 1
    ELSE -1

rfind(text, t) ==
    IF \E i \in DOMAIN text : text[i] = t
    THEN (CHOOSE i \in DOMAIN text :
              text[i] = t /\ \A j \in (i + 1)..Len(text) : text[j] # t) - 1
    ELSE -1

_extract_json_from_response(text) ==
    LET start == find(text, LBrace)
        end == rfind(text, RBrace)
    IN  IF start # -1 /\ end # -1 /\ end > start
        THEN Ok(SubSeq(text, start + 1, end + 1))
        ELSE Raise("ValueError", "No valid JSON object found in response")

\* a mutant of _create_fallback_response: the error is reported in the diagnosis
_create_fallback_response_with_error(error_msg) ==
    LaughRxResponse(
        PyStr("Oops! My roast circuits are having a moment - but I'm still here to help!"),
        PyStr(error_msg),
        PyStr("Please try rephrasing your symptoms, and I'll give you a proper LaughRx response. If this persists, consult a healthcare professional."),
        PyEnum("SeverityLevel", "LOW"),
        PyEnum("ResponseType", "ROAST_AND_ADVICE"),
        PyFloat(1),
        PyList(<< PyStr("system_error"), PyStr("fallback") >>),
        PyStr(medical_disclaimer),
        PyList(<< PyStr("Could you describe your symptoms differently?") >>))

_create_fallback_response(error_msg) ==
    LaughRxResponse(
        PyStr("Oops! My roast circuits are having a moment - but I'm still here to help!"),
        PyStr("I'm having trouble processing your symptoms in my usual witty way."),
        PyStr("Please try rephrasing your symptoms, and I'll give you a proper LaughRx response. If this persists, consult a healthcare professional."),
        PyEnum("SeverityLevel", "LOW"),
        PyEnum("ResponseType", "ROAST_AND_ADVICE"),
        PyFloat(1),
        PyList(<< PyStr("system_error"), PyStr("fallback") >>),
        PyStr(medical_disclaimer),
        PyList(<< PyStr("Could you describe your symptoms differently?") >>))

required_fields ==
    << "roast", "diagnosis", "advice", "severity", "response_type", "confidence_score", "tags" >>

\* the loop over required_fields: the first missing field raises ValueError
CheckRequiredFields(data) ==
    IF \E i \in DOMAIN required_fields : required_fields[i] \notin DOMAIN data
    THEN LET i == CHOOSE k \in DOMAIN required_fields :
                      /\ required_fields[k] \notin DOMAIN data
                      /\ \A j \in 1..(k - 1) : required_fields[j] \in DOMAIN data
         IN  Raise("ValueError", "Missing required field: " \o required_fields[i])
    ELSE Ok(data)

\* data.get(key, default)
DictGet(data, key, default) == IF key \in DOMAIN data THEN data[key] ELSE default

\* the constructor call of parse_ai_response (lines 139-149); the arguments
\* are evaluated in order, the first exception wins
BuildResponse(data) ==
    LET severity == EnumLookup("SeverityLevel", data["severity"])
        rtype == EnumLookup("ResponseType", data["response_type"])
        confidence_score == float(data["confidence_score"])
    IN  IF ~severity.ok THEN severity
        ELSE IF ~rtype.ok THEN rtype
        ELSE IF ~confidence_score.ok THEN confidence_score
        ELSE Ok(LaughRxResponse(data["roast"], data["diagnosis"], data["advice"],
                                severity.value, rtype.value,
                                confidence_score.value, data["tags"],
                                DictGet(data, "medical_disclaimer", PyStr(medical_disclaimer)),
                                DictGet(data, "follow_up_questions", None)))

\* the try block of parse_ai_response (lines 128-149)
ParseSteps(text) ==
    LET cleaned_response == _extract_json_from_response(text)
    IN  IF ~cleaned_response.ok THEN cleaned_response
        ELSE LET data == json_loads(cleaned_response.value)
             IN  IF ~data.ok THEN data
                 ELSE IF ~CheckRequiredFields(data.value).ok
                 THEN CheckRequiredFields(data.value)
                 ELSE BuildResponse(data.value)

\* except (json.JSONDecodeError, ValueError, KeyError)
ParseCaught == { "JSONDecodeError", "ValueError", "KeyError" }

parse_ai_response(text) ==
    LET r == ParseSteps(text)
    IN  IF r.ok THEN Returned(r.value)
        ELSE IF r.exception.type \in ParseCaught
        THEN Returned(_create_fallback_response(r.exception.msg))
        ELSE Raised(r.exception)

-----------------------------------------------------------------------------
(* Inputs of the post-processor *)

\* marks a key that the object does not have
Absent == [json |-> "absent"]

SeverityChoices ==
    { JStr("low"), JStr("urgent"), JStr("critical"), JStr("LOW"), JNull, Absent }

ResponseTypeChoices ==
    { JStr("roast_and_advice"), JStr("wellness_tip"), JStr("funny"), Absent }

ConfidenceChoices ==
    { JNum(0, TRUE), JNum(5, TRUE), JNum(10, FALSE), JNum(17, TRUE), JNum(-30, FALSE),
      JNull, JArr(<< >>), JStr("abc"), JStr("0.5"), Absent }

TagsChoices == { JArr(<< JStr("headache"), JStr("screen_time") >>), Absent }

\* which of roast, diagnosis, advice is left out ("" for none)
TextFieldMissing == { "", "roast", "diagnosis", "advice" }

DisclaimerChoices == { JStr("Not medical advice."), Absent }

FollowUpChoices == { JArr(<< JStr("How long have you had this headache?") >>), Absent }

\* the members of an object, absent keys left out
Members(pairs) ==
    LET present == SelectSeq(pairs, LAMBDA kv : kv.value # Absent)
    IN  [i \in DOMAIN present |-> Member(present[i].key, present[i].value)]

Pair(k, v) == [key |-> k, value |-> v]

JsonObjects ==
    { << LBrace >>
      \o Members(<< Pair("roast", IF missing = "roast" THEN Absent ELSE JStr("Nice try.")),
                    Pair("diagnosis",
                         IF missing = "diagnosis" THEN Absent ELSE JStr("Tension headache.")),
                    Pair("advice", IF missing = "advice" THEN Absent ELSE JStr("Drink water.")),
                    Pair("severity", se), Pair("response_type", rt),
                    Pair("confidence_score", cs), Pair("tags", tg),
                    Pair("medical_disclaimer", md), Pair("follow_up_questions", fu) >>)
      \o << RBrace >> :
      missing \in TextFieldMissing, se \in SeverityChoices, rt \in ResponseTypeChoices,
      cs \in ConfidenceChoices, tg \in TagsChoices, md \in DisclaimerChoices,
      fu \in FollowUpChoices }

RECURSIVE Repeat(_, _)
Repeat(t, n) == IF n = 0 THEN << >> ELSE << t >> \o Repeat(t, n - 1)

\* an object with up to MaxWrap tokens of free text before and after it
WrappedObjects ==
    { Repeat(Text("Sure, here is the answer:"), before) \o obj
      \o Repeat(Text("Hope this helps!"), after) :
      obj \in JsonObjects, before \in 0..MaxWrap, after \in 0..MaxWrap }

ValidObject ==
    << LBrace, Member("roast", JStr("Nice try.")), Member("diagnosis", JStr("Tension headache.")),
       Member("advice", JStr("Drink water.")), Member("severity", JStr("high")),
       Member("response_type", JStr("serious_concern")),
       Member("confidence_score", JNum(8, TRUE)), Member("tags", JArr(<< >>)), RBrace >>

\* outputs that hold no object, or braces in the wrong places
MalformedOutputs ==
    { << >>,
      << Text("ROAST: you stare at screens all day. ADVICE: drink water.") >>,
      << LBrace >>,
      << RBrace >>,
      << RBrace, LBrace >>,
      << LBrace, RBrace >>,
      << LBrace, Text("roast: no quotes here"), RBrace >>,
      ValidObject \o << RBrace >>,
      << LBrace >> \o ValidObject,
      << Text("Use {} for sets."), LBrace, RBrace >> \o ValidObject,
      ValidObject \o ValidObject,
      SubSeq(ValidObject, 1, Len(ValidObject) - 1) }

\* text around an object that holds a brace: a closing brace before the
\* object or an opening brace after it, and an opening brace before it or a
\* closing brace after it
BraceWraps ==
    { [before |-> << RBrace, Text("as promised:") >>, after |-> << >>],
      [before |-> << >>, after |-> << Text("More:"), LBrace >>],
      [before |-> << RBrace >>, after |-> << LBrace >>],
      [before |-> << LBrace, Text("here:") >>, after |-> << >>],
      [before |-> << >>, after |-> << Text("Done."), RBrace >>] }

BraceWrappedObjects ==
    { wrap.before \o obj \o wrap.after : obj \in JsonObjects, wrap \in BraceWraps }

ModelOutputs ==
    WrappedObjects \cup BraceWrappedObjects \cup MalformedOutputs \cup { ValidObject }

RECURSIVE TagLists(_)
TagLists(n) ==
    IF n = 0 THEN { << >> }
    ELSE TagLists(n - 1)
         \cup { tg \o << PyStr(t) >> : tg \in { l \in TagLists(n - 1) : Len(l) = n - 1 },
                                     t \in { "headache", "fallback" } }

\* the LaughRxResponse values that are encoded and parsed back
Responses ==
    { LaughRxResponse(PyStr(ro), PyStr("Tension headache."), PyStr("Drink water."),
                      PyEnum("SeverityLevel", se), PyEnum("ResponseType", rt),
                      cs, PyList(tg), PyStr(md), fu) :
      ro \in { "Nice try.", "" },
      se \in DOMAIN SeverityLevel,
      rt \in DOMAIN ResponseType,
      cs \in { PyFloat(0), PyFloat(1), PyFloat(9), PyFloat(10), PyInt(10) },
      tg \in TagLists(MaxTags),
      md \in { medical_disclaimer, "Not medical advice." },
      fu \in { None, PyList(<< >>),
               PyList(<< PyStr("How long have you had this headache?") >>) } }

-----------------------------------------------------------------------------
(* The post-processor applied to a model output, or to an encoded response *)

InitParse ==
    /\ pc = "ready"
    /\ fn = ""
    /\ symptoms = ""
    /\ duration = None
    /\ intensity = None
    /\ NoGenerate
    /\ NoServer
    /\ NoBmi
    /\ NoCot
    /\ NoCall
    /\ result = NoResult
    /\ \/ response = None /\ ai_response \in ModelOutputs
       \/ response \in Responses /\ ai_response = << >>

\* r.to_json(): the text that is parsed next
ToJson ==
    /\ pc = "ready"
    /\ ~IsNone(response)
    /\ ai_response' = to_json(response)
    /\ fn' = "to_json"
    /\ pc' = "encoded"
    /\ UNCHANGED <<serverVars, bmiArgs, cotArgs, callArgs, symptoms, severityArgs, response, generateVars, result>>

ParseAiResponse ==
    /\ \/ pc = "ready" /\ IsNone(response)
       \/ pc = "encoded"
    /\ result' = parse_ai_response(ai_response)
    /\ fn' = "parse_ai_response"
    /\ pc' = "done"
    /\ UNCHANGED <<serverVars, bmiArgs, cotArgs, callArgs, symptoms, severityArgs, parseVars, generateVars>>

NextParse ==
    \/ ToJson
    \/ ParseAiResponse

SpecParse == InitParse /\ [][NextParse]_vars

-----------------------------------------------------------------------------
(* Claims about the post-processor, checked under SpecParse *)

\* C5: parse_ai_response never raises to its caller; for every model output
\* text it returns a LaughRxResponse.
C5_ParseNeverRaises ==
    Called("parse_ai_response") => result.kind = "return"

\* the parse failures the claim C6 names: no JSON object, malformed JSON, a
\* missing required field, an invalid severity or response_type value
C6_ParseFailed ==
    LET cleaned == _extract_json_from_response(ai_response)
        data == json_loads(cleaned.value)
    IN  \/ ~cleaned.ok
        \/ ~data.ok
        \/ ~CheckRequiredFields(data.value).ok
        \/ ~EnumLookup("SeverityLevel", data.value["severity"]).ok
        \/ ~EnumLookup("ResponseType", data.value["response_type"]).ok

C6_Tags(r) == { r.tags.items[i].s : i \in DOMAIN r.tags.items }

C6_StaticFallback ==
    LaughRxResponse(
        PyStr("Oops! My roast circuits are having a moment - but I'm still here to help!"),
        PyStr("I'm having trouble processing your symptoms in my usual witty way."),
        PyStr("Please try rephrasing your symptoms, and I'll give you a proper LaughRx response. If this persists, consult a healthcare professional."),
        PyEnum("SeverityLevel", "LOW"),
        PyEnum("ResponseType", "ROAST_AND_ADVICE"),
        PyFloat(1),
        PyList(<< PyStr("system_error"), PyStr("fallback") >>),
        PyStr(medical_disclaimer),
        PyList(<< PyStr("Could you describe your symptoms differently?") >>))

\* C6 as stated: after a parse failure the result is one static fallback with
\* severity low and a parse_failure tag.
C6_FallbackHasParseFailureTag ==
    (Called("parse_ai_response") /\ C6_ParseFailed)
        => /\ result = Returned(C6_StaticFallback)
           /\ result.value.severity = PyEnum("SeverityLevel", "LOW")
           /\ "parse_failure" \in C6_Tags(result.value)

\* C6 amended: after a parse failure the result is one static fallback,
\* whatever the input and the error, with severity low and the tags
\* system_error and fallback.
C6_FallbackIsStatic ==
    (Called("parse_ai_response") /\ C6_ParseFailed)
        => /\ result = Returned(C6_StaticFallback)
           /\ result.value.severity = PyEnum("SeverityLevel", "LOW")
           /\ C6_Tags(result.value) = { "system_error", "fallback" }

\* C6 witness: syntactically valid JSON whose severity is not of the enum is
\* answered with the fallback.
C6_Witness ==
    /\ Called("parse_ai_response")
    /\ _extract_json_from_response(ai_response).ok
    /\ json_loads(_extract_json_from_response(ai_response).value).ok
    /\ \E i \in DOMAIN ai_response :
          ai_response[i] = Member("severity", JStr("critical"))
    /\ result = Returned(C6_StaticFallback)

C7_Equal(a, b) ==
    \A i \in DOMAIN ResponseFields : PyEq(a[ResponseFields[i]], b[ResponseFields[i]])

\* C7: parse_ai_response(r.to_json()) returns a response equal to r, field
\* for field.
C7_RoundTrip ==
    (Called("parse_ai_response") /\ ~IsNone(response))
        => /\ result.kind = "return"
           /\ C7_Equal(result.value, response)

\* C7 witness: a response with severity urgent, two tags, an integer
\* confidence and no follow-up questions came back from its JSON text.
C7_Witness ==
    /\ Called("parse_ai_response")
    /\ ~IsNone(response)
    /\ response.severity = PyEnum("SeverityLevel", "URGENT")
    /\ response.confidence_score = PyInt(10)
    /\ Len(response.tags.items) = 2
    /\ IsNone(response.follow_up_questions)
    /\ ai_response = to_json(response)
    /\ result.kind = "return"
    /\ result.value.severity = response.severity
    /\ result.value.confidence_score = PyFloat(10)

\* C8: every LaughRxResponse returned by parse_ai_response has a
\* confidence_score within [0, 1].
C8_ConfidenceClamped ==
    (Called("parse_ai_response") /\ result.kind = "return")
        => /\ result.value.confidence_score.n >= 0
           /\ result.value.confidence_score.n <= 10

-----------------------------------------------------------------------------
(* dict values, truthiness and str() *)

\* a dict: its items in insertion order, keys distinct
PyDict(items) == [py |-> "dict", items |-> items]

\* d.get(key): None when the key is absent
Get(d, key) ==
    IF \E i \in DOMAIN d.items : d.items[i].key = key
    THEN d.items[CHOOSE i \in DOMAIN d.items : d.items[i].key = key].value
    ELSE None

\* bool(v)
Truthy(v) ==
    IF IsNone(v) THEN FALSE
    ELSE IF v.py = "str" THEN v.s # ""
    ELSE IF v.py \in {"list", "dict"} THEN Len(v.items) > 0
    ELSE IF v.py \in {"int", "float"} THEN v.n # 0
    ELSE IF v.py = "bool" THEN v.b
    ELSE TRUE

RECURSIVE NatToStr(_)
NatToStr(n) ==
    IF n < 10 THEN SubSeq(Digits, n + 1, n + 1)
    ELSE NatToStr(n \div 10) \o SubSeq(Digits, (n % 10) + 1, (n % 10) + 1)

\* str(v) of a str, an int, a float (one decimal), a bool or None
Str(v) ==
    IF IsNone(v) THEN "None"
    ELSE IF v.py = "str" THEN v.s
    ELSE IF v.py = "int"
    THEN (IF v.n < 0 THEN "-" ELSE "") \o NatToStr((IF v.n < 0 THEN 0 - v.n ELSE v.n) \div 10)
    ELSE IF v.py = "float"
    THEN (IF v.n < 0 THEN "-" ELSE "")
         \o NatToStr((IF v.n < 0 THEN 0 - v.n ELSE v.n) \div 10) \o "."
         \o NatToStr((IF v.n < 0 THEN 0 - v.n ELSE v.n) % 10)
    ELSE IF v.py = "bool" THEN (IF v.b THEN "True" ELSE "False")
    ELSE "<" \o v.py \o ">"

\* sep.join(parts)
RECURSIVE Join(_, _)
Join(sep, parts) ==
    IF Len(parts) = 0 THEN ""
    ELSE IF Len(parts) = 1 THEN parts[1]
    ELSE parts[1] \o sep \o Join(sep, Tail(parts))

\* type(v).__name__
TypeName(v) == IF IsNone(v) THEN "NoneType" ELSE v.py

\* seq[:n]
Prefix(seq, n) == SubSeq(seq, 1, IF Len(seq) < n THEN Len(seq) ELSE n)

-----------------------------------------------------------------------------
(* ai_integration_simple.py: LaughRxAISimple.generate_response *)

\* self.system_prompt (first line; the rest is fixed text)
SimpleSystemPrompt == "You are LaughRx, a humorous AI doctor with a unique personality:"

\* the hosted model: generate_content raises, or returns a response whose
\* .text is the text or raises (blocked or malformed response)
ModelCall(m) ==
    IF m.outcome = "text" THEN Ok(PyStr(m.detail))
    ELSE IF m.outcome = "blocked"
    THEN Raise("ValueError", "response.text requires a valid Part: " \o m.detail)
    ELSE Raise("GoogleAPIError", m.detail)

\* lines 108-123: the lines of the dynamic context block
DynamicLines(opts) ==
    LET tone == Get(opts, "tone")
        persona == Get(opts, "persona")
        language == Get(opts, "language")
        extra_instructions == Get(opts, "extra_instructions")
        context == IF Truthy(Get(opts, "user_context"))
                   THEN Get(opts, "user_context") ELSE PyDict(<< >>)
        constraints == IF Truthy(Get(opts, "constraints"))
                       THEN Get(opts, "constraints") ELSE PyList(<< >>)
        context_items == Prefix(context.items, 10)
        context_pairs ==
            Join(", ", [i \in DOMAIN context_items |->
                           context_items[i].key \o "=" \o Str(context_items[i].value)])
        constraint_items == Prefix(constraints.items, 10)
    IN  IF Truthy(constraints) /\ constraints.py \notin {"list", "str"}
        THEN Raise("TypeError", "'" \o TypeName(constraints) \o "' object is not subscriptable")
        ELSE Ok(
            (IF Truthy(tone) THEN << "- Desired tone: " \o Str(tone) >> ELSE << >>)
            \o (IF Truthy(persona) THEN << "- Adopt this persona: " \o Str(persona) >> ELSE << >>)
            \o (IF Truthy(language)
                THEN << "- Respond in language: " \o Str(language) >> ELSE << >>)
            \o (IF Truthy(context) /\ context.py = "dict"
                THEN << "- User context: " \o context_pairs >> ELSE << >>)
            \o (IF Truthy(constraints) /\ constraints.py = "list"
                THEN << "- Constraints:" >>
                     \o [i \in DOMAIN constraint_items |-> "  * " \o Str(constraint_items[i])]
                ELSE IF Truthy(constraints)
                THEN << "- Constraints:" >>
                     \o [i \in 1..(IF Len(constraints.s) < 10 THEN Len(constraints.s) ELSE 10) |->
                            "  * " \o SubSeq(constraints.s, i, i)]
                ELSE << >>)
            \o (IF Truthy(extra_instructions)
                THEN << "- Extra instructions: " \o Str(extra_instructions) >> ELSE << >>))

\* `a or b or ""` of two dict lookups
FirstTruthy(ex, k1, k2) ==
    IF Truthy(Get(ex, k1)) THEN Str(Get(ex, k1))
    ELSE IF Truthy(Get(ex, k2)) THEN Str(Get(ex, k2))
    ELSE ""

\* lines 125-132: the few-shot examples block
ExamplesBlock(opts) ==
    LET examples == IF Truthy(Get(opts, "examples")) THEN Get(opts, "examples")
                    ELSE PyList(<< >>)
        used == Prefix(examples.items, 5)
        bad == CHOOSE i \in DOMAIN used :
                   /\ IsNone(used[i]) \/ used[i].py # "dict"
                   /\ \A j \in 1..(i - 1) : ~IsNone(used[j]) /\ used[j].py = "dict"
    IN  IF ~Truthy(examples) THEN Ok("")
        ELSE IF examples.py = "str"
        THEN Raise("AttributeError", "'str' object has no attribute 'get'")
        ELSE IF examples.py # "list"
        THEN Raise("TypeError", "'" \o TypeName(examples) \o "' object is not subscriptable")
        ELSE IF \E i \in DOMAIN used : IsNone(used[i]) \/ used[i].py # "dict"
        THEN Raise("AttributeError",
                   "'" \o TypeName(used[bad]) \o "' object has no attribute 'get'")
        ELSE Ok("\n\nFew-shot examples:\n"
                \o Join("\n\n", [i \in DOMAIN used |->
                                    "User: " \o FirstTruthy(used[i], "user", "input")
                                    \o "\nAssistant: "
                                    \o FirstTruthy(used[i], "assistant", "output")]))

\* lines 93-141: the prompt, or the exception raised on the way
FullPrompt(self, s, options) ==
    LET opts == IF Truthy(options) THEN options ELSE PyDict(<< >>)
    IN  IF opts.py # "dict"
        THEN Raise("AttributeError", "'" \o TypeName(opts) \o "' object has no attribute 'get'")
        ELSE
        LET system_prompt == IF Truthy(Get(opts, "system_override"))
                             THEN Str(Get(opts, "system_override")) ELSE self.system_prompt
            dynamic_lines == DynamicLines(opts)
            examples_block == ExamplesBlock(opts)
        IN  IF ~dynamic_lines.ok THEN dynamic_lines
            ELSE IF ~examples_block.ok THEN examples_block
            ELSE Ok(system_prompt
                    \o (IF Len(dynamic_lines.value) > 0
                        THEN "\n\nDYNAMIC CONTEXT:\n" \o Join("\n", dynamic_lines.value)
                        ELSE "")
                    \o examples_block.value
                    \o "\n\nUser symptoms: " \o s \o "\n\nPlease respond in the LaughRx format:")

\* lines 145-147: the stop sequences of this request (None when there are none)
StopSequences(self, options) ==
    LET opts == IF Truthy(options) THEN options ELSE PyDict(<< >>)
        requested == IF opts.py = "dict" THEN Get(opts, "stop_sequences") ELSE None
    IN  IF Truthy(requested) THEN requested
        ELSE IF Len(self.stop_sequences_default) > 0
        THEN PyList([i \in DOMAIN self.stop_sequences_default |->
                        PyStr(self.stop_sequences_default[i])])
        ELSE None

\* lines 149-158: the invocation of the hosted model
SimpleInvocation(self, prompt, options) ==
    [prompt |-> prompt,
     generation_config |->
         [temperature |-> 7, top_p |-> self.top_p, top_k |-> self.top_k,
          stop_sequences |-> StopSequences(self, options), max_output_tokens |-> 500]]

\* lines 160-164
SimpleSuccess(text, s) == [success |-> TRUE, response |-> text, symptoms |-> s]

\* a mutant of SimpleFailure: the error is returned without the fallback message
SimpleFailureWithoutFallback(e) == [success |-> FALSE, error |-> e.msg]

\* lines 166-171
SimpleFailure(e) ==
    [success |-> FALSE, error |-> e.msg,
     fallback |-> PyStr("Sorry, I'm having technical difficulties. Please try again!")]

\* a mutant of SimpleCatches: only ValueError is caught
SimpleCatchesValueError(e) == e.type = "ValueError"

\* `except Exception`
SimpleCatches(e) == TRUE

\* a mutant of ModelRounds: a failed invocation is attempted a second time
ModelRoundsWithRetry(answer) == IF answer.ok THEN 1 ELSE 2

\* lines 149-158: generate_content is called once, whatever it answers
ModelRounds(answer) == 1

\* the return value (or escaping exception) and the invocations made
Simple_generate_response(self, s, options, m) ==
    LET prompt == FullPrompt(self, s, options)
        answer == ModelCall(m)
        failed == IF ~prompt.ok THEN prompt ELSE answer
    IN  [invoked |-> IF prompt.ok
                     THEN Repeat(SimpleInvocation(self, prompt.value, options),
                                 ModelRounds(answer))
                     ELSE << >>,
         outcome |-> IF prompt.ok /\ answer.ok THEN Returned(SimpleSuccess(answer.value, s))
                     ELSE IF SimpleCatches(failed.exception)
                     THEN Returned(SimpleFailure(failed.exception))
                     ELSE Raised(failed.exception)]

-----------------------------------------------------------------------------
(* ai_integration.py: LaughRxAI.generate_response *)

\* a rendering that leaves out the entries with a falsy value
ContextPartsTruthy(context) ==
    LET kept == SelectSeq(context.items, LAMBDA entry : Truthy(entry.value))
    IN  Join(", ", [i \in DOMAIN kept |-> kept[i].key \o ": " \o Str(kept[i].value)])

\* [f"{k}: {v}" for k, v in user_context.items()] joined by ", "
ContextParts(context) ==
    Join(", ", [i \in DOMAIN context.items |->
                   context.items[i].key \o ": " \o Str(context.items[i].value)])

\* system_user_prompts.py, create_user_prompt: context_info holds the age,
\* the lifestyle and the previous issues, each only when truthy
ContextInfo(context) ==
    (IF Truthy(Get(context, "age")) THEN << "Age: " \o Str(Get(context, "age")) >> ELSE << >>)
    \o (IF Truthy(Get(context, "lifestyle"))
        THEN << "Lifestyle: " \o Str(Get(context, "lifestyle")) >> ELSE << >>)
    \o (IF Truthy(Get(context, "previous_issues"))
        THEN << "Previous issues: " \o Str(Get(context, "previous_issues")) >> ELSE << >>)

\* system_user_prompts.py: LaughRxPrompts.create_user_prompt
create_user_prompt(s, context) ==
    "User's symptoms: " \o s
    \o (IF Truthy(context) /\ ContextInfo(context) # << >>
        THEN "\nAdditional context: " \o Join(", ", ContextInfo(context))
        ELSE "")

PromptData(system_prompt, user_prompt) ==
    [py |-> "dict", system_prompt |-> system_prompt, user_prompt |-> user_prompt]

\* zero_shot_prompting.py: create_zero_shot_prompt
create_zero_shot_prompt(s, context) ==
    "Please help me with these symptoms: " \o s
    \o (IF Truthy(context) THEN "\n\nAdditional information about me: " \o ContextParts(context)
        ELSE "")
    \o "\n\nPlease respond in your typical LaughRx style with a roast, diagnosis, and advice."

get_zero_shot_prompt_pair(s, context) ==
    Ok(PromptData("You are LaughRx, the AI Roast Doctor.", create_zero_shot_prompt(s, context)))

\* the user prompt of the one-shot, multi-shot and chain-of-thought renderers
UserPromptWithContext(s, context) ==
    "USER: " \o s
    \o (IF Truthy(context) THEN "\nContext: " \o ContextParts(context) ELSE "")

\* one_shot_prompting.py: create_one_shot_prompt(symptoms, example_type,
\* user_context); self.examples[example_type] is looked up first
create_one_shot_prompt(s, example_type, context) ==
    IF IsNone(example_type) THEN Raise("KeyError", "None")
    ELSE IF example_type.py = "dict" THEN Raise("TypeError", "unhashable type: 'dict'")
    ELSE IF example_type.py # "enum" THEN Raise("KeyError", Str(example_type))
    ELSE Ok(PromptData("You are LaughRx. Here's an example of how you should respond:",
                       UserPromptWithContext(s, context)))

\* multi_shot_prompting.py: create_adaptive_multi_shot_prompt
create_adaptive_multi_shot_prompt(s, context) ==
    Ok(PromptData("You are LaughRx. Here are examples showing different response styles:",
                  UserPromptWithContext(s, context)))

\* chain_of_thought.py, _step_4_risk_evaluation: `if age and age > 50`
AgeComparison(context) ==
    LET age == Get(context, "age")
    IN  IF Truthy(age) /\ ~IsNumber(age) /\ age.py # "bool"
        THEN Raise("TypeError", "'>' not supported between instances of '"
                                \o age.py \o "' and 'int'")
        ELSE Ok(Truthy(age) /\ IsNumber(age) /\ age.n > 500)

\* chain_of_thought.py: create_chain_of_thought_prompt
create_chain_of_thought_prompt(s, context) ==
    IF Truthy(context) /\ ~AgeComparison(context).ok THEN AgeComparison(context)
    ELSE Ok(PromptData("You are LaughRx, the AI Roast Doctor. When analyzing symptoms, you must show your reasoning process step-by-step.",
                       UserPromptWithContext(s, context)))

\* structured_output.py: create_structured_prompt returns a str
create_structured_prompt(s, context) ==
    Ok(PyStr("Symptoms: " \o s
             \o (IF Truthy(context) THEN "\nContext: " \o ContextParts(context) ELSE "")
             \o "\n\nPlease respond with a JSON object following the LaughRx format."))

\* lines 56-66; the one-shot renderer receives user_context as example_type
SelectPrompt(rtype, s, context) ==
    IF rtype = "zero_shot" THEN get_zero_shot_prompt_pair(s, context)
    ELSE IF rtype = "one_shot" THEN create_one_shot_prompt(s, context, None)
    ELSE IF rtype = "multi_shot" THEN create_adaptive_multi_shot_prompt(s, context)
    ELSE IF rtype = "chain_of_thought" THEN create_chain_of_thought_prompt(s, context)
    ELSE create_structured_prompt(s, context)

\* line 69: prompt_data["system_prompt"] + prompt_data["user_prompt"]
PromptText(prompt_data) ==
    IF prompt_data.py = "dict" THEN Ok(prompt_data.system_prompt \o prompt_data.user_prompt)
    ELSE Raise("TypeError", "string indices must be integers, not 'str'")

\* line 72: LaughRxTemperatureControl defines no determine_temperature
determine_temperature(s, context) ==
    Raise("AttributeError",
          "'LaughRxTemperatureControl' object has no attribute 'determine_temperature'")

\* lines 90-100: the parsed response, or the basic structure of the bare except
StructuredResponse(tokens) ==
    IF parse_ai_response(tokens).kind = "return" THEN parse_ai_response(tokens).value
    ELSE [roast |-> tokens, diagnosis |-> PyStr("AI-generated medical insight"),
          advice |-> PyStr("Please consult a healthcare professional"),
          severity |-> PyStr("moderate"), category |-> PyStr("general")]

\* tokens_and_tokenization.py, _bpe_approximate_tokenize: the words
\* (\b\w+\b) and the other non-blank characters of an ASCII text; a word of
\* more than 6 characters is cut into chunks of 4
IsWordChar(c) == Contains(LowerAlphabet \o UpperAlphabet \o Digits \o "_", c)
IsBlank(c) == c \in { " ", "\n", "\t", "\r" }
WordTokens(n) == IF n = 0 THEN 0 ELSE IF n <= 6 THEN 1 ELSE (n + 3) \div 4

\* tokens of text from position i on, after a run of `run` word characters
RECURSIVE TokensFrom(_, _, _)
TokensFrom(text, i, run) ==
    IF i > Len(text) THEN WordTokens(run)
    ELSE IF IsWordChar(SubSeq(text, i, i)) THEN TokensFrom(text, i + 1, run + 1)
    ELSE WordTokens(run) + (IF IsBlank(SubSeq(text, i, i)) THEN 0 ELSE 1)
         + TokensFrom(text, i + 1, 0)

\* tokenize_text(text): token_count, and cost_estimate = token_count / 1000
\* * 0.0015 in ten-millionths of a dollar
tokenize_text(text) ==
    [token_count |-> TokensFrom(text, 1, 0), cost_estimate |-> 15 * TokensFrom(text, 1, 0)]

\* lines 102-112
AISuccess(structured_response, rtype, temperature, text) ==
    [success |-> TRUE, response |-> structured_response,
     metadata |-> [response_type |-> rtype, temperature |-> temperature,
                   tokens_used |-> tokenize_text(text).token_count,
                   cost_estimate |-> tokenize_text(text).cost_estimate,
                   processing_time |-> "< 1 second"]]

\* lines 114-123
AIFailure(e) ==
    [success |-> FALSE, error |-> e.msg,
     fallback_response |->
         [roast |-> PyStr("Well, something went wrong with my AI brain, but at least your symptoms are still there!"),
          diagnosis |-> PyStr("Technical difficulties detected"),
          advice |-> PyStr("Try again in a moment, and if problems persist, consult a healthcare professional (and maybe a tech support person too!)")]]

\* the steps of the try block up to the model call (lines 55-75)
AIPrepare(s, context, rtype) ==
    LET prompt_data == SelectPrompt(rtype, s, context)
    IN  IF ~prompt_data.ok THEN prompt_data
        ELSE IF ~PromptText(prompt_data.value).ok THEN PromptText(prompt_data.value)
        ELSE IF ~determine_temperature(s, context).ok THEN determine_temperature(s, context)
        ELSE Ok([full_prompt |-> prompt_data.value.system_prompt \o "\n\nUser: "
                                 \o prompt_data.value.user_prompt,
                 text |-> PromptText(prompt_data.value).value,
                 temperature |-> determine_temperature(s, context).value.temperature])

\* the return value and the invocations made; tokens is the text the model
\* returns when it answers
AI_generate_response(s, context, rtype, m, tokens) ==
    LET prepared == AIPrepare(s, context, rtype)
        answer == ModelCall(m)
        failed == IF ~prepared.ok THEN prepared ELSE answer
    IN  [invoked |->
             IF prepared.ok
             THEN << [prompt |-> prepared.value.full_prompt,
                      generation_config |-> [temperature |-> prepared.value.temperature,
                                             max_output_tokens |-> 1000]] >>
             ELSE << >>,
         outcome |->
             IF prepared.ok /\ answer.ok
             THEN Returned(AISuccess(StructuredResponse(tokens), rtype,
                                     prepared.value.temperature, prepared.value.text))
             ELSE Returned(AIFailure(failed.exception))]

-----------------------------------------------------------------------------
(* ai_integration_simple.py: LaughRxAISimple.__init__ *)

\* number of fraction digits kept of a float read from the environment
\* (top_p is kept in thousandths)
FractionDigits == 3

RECURSIVE Pow10(_)
Pow10(n) == IF n = 0 THEN 1 ELSE 10 * Pow10(n - 1)

\* one unit of top_p
Milli == Pow10(FractionDigits)

\* floats as the sampling configuration needs them
Finite(m) == [f |-> "finite", milli |-> m]
NaN == [f |-> "nan"]
Inf(negative) == [f |-> "inf", negative |-> negative]

\* a < b on floats: every comparison with nan is False
FloatLess(a, b) ==
    IF a.f = "nan" \/ b.f = "nan" THEN FALSE
    ELSE IF a.f = "inf" THEN a.negative /\ ~(b.f = "inf" /\ b.negative)
    ELSE IF b.f = "inf" THEN ~b.negative
    ELSE a.milli < b.milli

\* min(a, b) and max(a, b) of Python: the first argument unless the second
\* is strictly smaller (greater)
min(a, b) == IF FloatLess(b, a) THEN b ELSE a
max(a, b) == IF FloatLess(a, b) THEN b ELSE a

\* str.strip() of a text whose only whitespace is the space
RECURSIVE LStrip(_)
LStrip(s) == IF Len(s) > 0 /\ SubSeq(s, 1, 1) = " " THEN LStrip(SubSeq(s, 2, Len(s))) ELSE s
RECURSIVE RStrip(_)
RStrip(s) ==
    IF Len(s) > 0 /\ SubSeq(s, Len(s), Len(s)) = " " THEN RStrip(SubSeq(s, 1, Len(s) - 1)) ELSE s
Strip(s) == LStrip(RStrip(s))

\* str.split(","), at least one part
RECURSIVE Split(_)
Split(s) ==
    IF ~Contains(s, ",") THEN << s >>
    ELSE LET i == CHOOSE j \in 1..Len(s) :
                      /\ SubSeq(s, j, j) = ","
                      /\ \A k \in 1..(j - 1) : SubSeq(s, k, k) # ","
         IN  << SubSeq(s, 1, i - 1) >> \o Split(SubSeq(s, i + 1, Len(s)))

\* a sign and the rest of a stripped numeric literal
Unsigned(t) ==
    IF Len(t) > 0 /\ SubSeq(t, 1, 1) \in { "-", "+" } THEN SubSeq(t, 2, Len(t)) ELSE t
IsNegative(t) == Len(t) > 0 /\ SubSeq(t, 1, 1) = "-"

\* float(str) for nan, inf, infinity and decimal literals of at most
\* FractionDigits fraction digits ("7", "0.25", ".5", "5.")
float_of_str(s) ==
    LET t == Strip(s)
        body == Unsigned(t)
        word == Lower(body)
        dot == IF Contains(body, ".")
               THEN CHOOSE j \in 1..Len(body) :
                        /\ SubSeq(body, j, j) = "."
                        /\ \A k \in 1..(j - 1) : SubSeq(body, k, k) # "."
               ELSE Len(body) + 1
        whole == SubSeq(body, 1, dot - 1)
        frac == SubSeq(body, dot + 1, Len(body))
        digitsOnly(x) == \A i \in 1..Len(x) : IsDigit(SubSeq(x, i, i))
        magnitude == DigitsValue(whole, Len(whole)) * Milli
                     + DigitsValue(frac, Len(frac)) * Pow10(FractionDigits - Len(frac))
    IN  IF word = "nan" THEN Ok(NaN)
        ELSE IF word \in { "inf", "infinity" } THEN Ok(Inf(IsNegative(t)))
        ELSE IF /\ digitsOnly(whole) /\ digitsOnly(frac)
                /\ Len(whole) + Len(frac) > 0
                /\ Len(frac) <= FractionDigits
        THEN Ok(Finite(IF IsNegative(t) THEN 0 - magnitude ELSE magnitude))
        ELSE Raise("ValueError", "could not convert string to float: '" \o s \o "'")

\* int(str) for decimal literals
int_of_str(s) ==
    LET t == Strip(s)
        body == Unsigned(t)
    IN  IF AllDigits(body)
        THEN Ok(IF IsNegative(t) THEN 0 - DigitsValue(body, Len(body))
                ELSE DigitsValue(body, Len(body)))
        ELSE Raise("ValueError", "invalid literal for int() with base 10: '" \o s \o "'")

\* os.getenv(name, default)
getenv(e, name, default) == IF IsNone(e[name]) THEN default ELSE e[name].some

\* a mutant of top_p_of: the clamped value is kept when it is 0
top_p_of_unfloored(e) ==
    LET top_p_env == float_of_str(getenv(e, "TOP_P", "0.9"))
    IN  IF ~top_p_env.ok THEN Finite(9 * (Milli \div 10))
        ELSE max(Finite(0), min(Finite(Milli), top_p_env.value))

\* lines 24-30
top_p_of(e) ==
    LET top_p_env == float_of_str(getenv(e, "TOP_P", "0.9"))
        clamped == max(Finite(0), min(Finite(Milli), top_p_env.value))
    IN  IF ~top_p_env.ok THEN Finite(9 * (Milli \div 10))
        ELSE IF clamped = Finite(0) THEN Finite(Milli \div 100)
        ELSE clamped

\* lines 31-36
top_k_of(e) ==
    LET top_k_env == int_of_str(getenv(e, "TOP_K", "40"))
    IN  IF ~top_k_env.ok THEN 40
        ELSE IF top_k_env.value > 0 THEN top_k_env.value ELSE 0

\* lines 38-43
stop_sequences_default_of(e) ==
    LET raw_stops == getenv(e, "STOP_SEQUENCES", "")
        parts == Split(raw_stops)
    IN  IF Strip(raw_stops) # ""
        THEN SelectSeq([i \in DOMAIN parts |-> Strip(parts[i])], LAMBDA x : x # "")
        ELSE << >>

\* LaughRxAISimple(): the instance, or the ValueError of a missing key
LaughRxAISimple(e) ==
    IF getenv(e, "GEMINI_API_KEY", "") = ""
    THEN Raise("ValueError", "GEMINI_API_KEY not found in environment variables")
    ELSE Ok([top_p |-> top_p_of(e).milli, top_k |-> top_k_of(e),
             stop_sequences_default |-> stop_sequences_default_of(e),
             system_prompt |-> SimpleSystemPrompt])

-----------------------------------------------------------------------------
(* The generate_response operations applied to one request *)

\* a credential that is set
WithKey(top_p, top_k, stops) ==
    [GEMINI_API_KEY |-> Some("test-key"), TOP_P |-> top_p, TOP_K |-> top_k,
     STOP_SEQUENCES |-> stops]

\* the environments of the generate_response calls
GenerateEnvs ==
    { WithKey(None, None, None),
      WithKey(Some("0.5"), Some("0"), Some("DISCLAIMER, END")) }

\* LaughRxAISimple instances as __init__ leaves them
Clients == { LaughRxAISimple(e).value : e \in GenerateEnvs }

\* behaviours of the hosted model
Models ==
    { [outcome |-> "text", detail |-> "ROAST: screens again? DIAGNOSIS: tension headache. ADVICE: drink water."],
      [outcome |-> "text", detail |-> ""],
      [outcome |-> "error", detail |-> "503 failed to connect to all addresses"],
      [outcome |-> "error", detail |-> "400 API key not valid. Please pass a valid API key."],
      [outcome |-> "error", detail |-> "429 Resource has been exhausted (e.g. check quota)."],
      [outcome |-> "blocked", detail |-> "finish_reason is SAFETY"] }

RequestSymptoms == { "", "I have a headache", ChestPainText }

TestContext == PyDict(<< Pair("age", PyStr("25")), Pair("lifestyle", PyStr("desk job")) >>)

UserContexts ==
    { None, PyDict(<< >>), TestContext,
      PyDict(<< Pair("age", PyInt(620)), Pair("medication", PyStr("aspirin")) >>) }

ResponseTypes ==
    { "zero_shot", "one_shot", "multi_shot", "chain_of_thought", "standard", "haiku" }

\* dynamic_options values: absent, well typed, and loosely typed
DynamicOptions ==
    { None,
      PyDict(<< >>),
      PyDict(<< Pair("tone", PyStr("gentle")), Pair("language", PyStr("Hindi")) >>),
      PyDict(<< Pair("persona", PyStr("pirate")), Pair("extra_instructions", PyStr("be brief")) >>),
      PyDict(<< Pair("system_override", PyStr("You are a serious triage nurse.")) >>),
      PyDict(<< Pair("stop_sequences", PyList(<< PyStr("ADVICE") >>)) >>),
      PyDict(<< Pair("stop_sequences", PyList(<< >>)) >>),
      PyDict(<< Pair("user_context", TestContext) >>),
      PyDict(<< Pair("user_context", PyStr("student")) >>),
      PyDict(<< Pair("constraints", PyList(<< PyStr("no puns"), PyInt(30) >>)) >>),
      PyDict(<< Pair("constraints", PyStr("ok")) >>),
      PyDict(<< Pair("constraints", PyInt(50)) >>),
      PyDict(<< Pair("examples",
                     PyList(<< PyDict(<< Pair("user", PyStr("I sneeze")),
                                         Pair("output", PyStr("Dust much?")) >>) >>)) >>),
      PyDict(<< Pair("examples", PyList(<< PyStr("I sneeze -> Dust much?") >>)) >>),
      PyDict(<< Pair("examples", PyList(<< None >>)) >>),
      PyDict(<< Pair("examples", PyInt(10)) >>),
      PyDict(<< Pair("tone", PyInt(70)), Pair("system_override", PyBool(TRUE)),
                Pair("stop_sequences", PyStr("END")) >>),
      PyList(<< PyStr("tone"), PyStr("gentle") >>),
      PyStr("gentle"),
      PyInt(10) }

InitGenerate ==
    /\ pc = "ready"
    /\ fn = ""
    /\ symptoms \in RequestSymptoms
    /\ duration = None
    /\ intensity = None
    /\ ai_response \in { ValidObject, << Text("ROAST: screens again?") >> }
    /\ response = None
    /\ dynamic_options = None
    /\ user_context = None
    /\ response_type = ""
    /\ model \in Models
    /\ env \in GenerateEnvs
    /\ client = LaughRxAISimple(env).value
    /\ invocations = << >>
    /\ responses = << >>
    /\ NoBmi
    /\ NoCot
    /\ NoCall
    /\ result = NoResult

\* LaughRxAISimple.generate_response(symptoms, dynamic_options)
SimpleGenerateResponse ==
    /\ pc = "ready"
    /\ \E options \in DynamicOptions :
          LET call == Simple_generate_response(client, symptoms, options, model)
          IN  /\ dynamic_options' = options
              /\ invocations' = invocations \o call.invoked
              /\ result' = call.outcome
    /\ fn' = "LaughRxAISimple.generate_response"
    /\ pc' = "done"
    /\ UNCHANGED <<serverVars, bmiArgs, cotArgs, callArgs, symptoms, severityArgs, parseVars, user_context, response_type, model, client>>

\* LaughRxAI.generate_response(symptoms, user_context, response_type)
AIGenerateResponse ==
    /\ pc = "ready"
    /\ \E context \in UserContexts, rtype \in ResponseTypes :
          LET call == AI_generate_response(symptoms, context, rtype, model, ai_response)
          IN  /\ user_context' = context
              /\ response_type' = rtype
              /\ invocations' = invocations \o call.invoked
              /\ result' = call.outcome
    /\ fn' = "LaughRxAI.generate_response"
    /\ pc' = "done"
    /\ UNCHANGED <<serverVars, bmiArgs, cotArgs, callArgs, symptoms, severityArgs, parseVars, dynamic_options, model, client>>

NextGenerate ==
    \/ SimpleGenerateResponse
    \/ AIGenerateResponse

SpecGenerate == InitGenerate /\ [][NextGenerate]_vars

-----------------------------------------------------------------------------
(* Claims about the generate_response operations *)

GenerateOps == { "LaughRxAISimple.generate_response", "LaughRxAI.generate_response" }

\* a generate_response call that did not succeed: it raised, or returned
\* success = False
C9_GenerateFailed ==
    /\ pc = "done"
    /\ fn \in GenerateOps
    /\ result.kind = "return" => ~result.value.success

C9_SchemaFields ==
    { "roast", "diagnosis", "advice", "severity", "response_type",
      "confidence_score", "tags", "medical_disclaimer" }

\* C9 (as stated): when the model call or any step before it fails, the
\* result of generate_response carries a response object with every field of
\* the StructuredResponse schema (roast, diagnosis, advice, severity,
\* response_type, confidence_score, tags, medical_disclaimer).
C9_FailureCarriesStructuredResponse ==
    C9_GenerateFailed =>
        /\ result.kind = "return"
        /\ \E k \in DOMAIN result.value \ { "success", "error" } :
              C9_SchemaFields \subseteq DOMAIN result.value[k]

\* C9 (amended): when the model call or any step before it fails, the result
\* of generate_response is returned with success = False, the error, and a
\* static fallback that is never absent: LaughRxAI puts a fallback_response of
\* exactly roast, diagnosis and advice, LaughRxAISimple a fallback message;
\* neither carries the other fields of the StructuredResponse schema.
C9_FailureCarriesStaticFallback ==
    C9_GenerateFailed =>
        /\ result.kind = "return"
        /\ fn = "LaughRxAI.generate_response" =>
              /\ DOMAIN result.value = { "success", "error", "fallback_response" }
              /\ DOMAIN result.value.fallback_response = { "roast", "diagnosis", "advice" }
              /\ \A k \in DOMAIN result.value.fallback_response :
                    /\ result.value.fallback_response[k].py = "str"
                    /\ result.value.fallback_response[k].s # ""
              /\ result.value.fallback_response.diagnosis = PyStr("Technical difficulties detected")
        /\ fn = "LaughRxAISimple.generate_response" =>
              /\ DOMAIN result.value = { "success", "error", "fallback" }
              /\ result.value.fallback
                    = PyStr("Sorry, I'm having technical difficulties. Please try again!")

\* the hosted model was called and the call failed
C9_Witness ==
    /\ Called("LaughRxAISimple.generate_response")
    /\ model.outcome = "error"
    /\ Len(invocations) = 1
    /\ result.kind = "return"
    /\ ~result.value.success

\* C10: LaughRxAISimple.generate_response never raises; it returns a dict with
\* a boolean success: on failure success = False with the error string and
\* the apologetic fallback message, on success the model text and the
\* symptoms echoed.
C10_SimpleNeverRaises ==
    Called("LaughRxAISimple.generate_response") =>
        /\ result.kind = "return"
        /\ result.value.success \in BOOLEAN
        /\ result.value.success =>
              /\ DOMAIN result.value = { "success", "response", "symptoms" }
              /\ model.outcome = "text"
              /\ result.value.response = PyStr(model.detail)
              /\ result.value.symptoms = symptoms
        /\ ~result.value.success =>
              /\ DOMAIN result.value = { "success", "error", "fallback" }
              /\ model.outcome = "text" => invocations = << >>
              /\ (model.outcome # "text" /\ invocations # << >>) =>
                    result.value.error = ModelCall(model).exception.msg
              /\ result.value.fallback
                    = PyStr("Sorry, I'm having technical difficulties. Please try again!")

\* a malformed response of the model, with loosely typed options accepted on
\* the way to the call
C10_Witness ==
    /\ Called("LaughRxAISimple.generate_response")
    /\ model.outcome = "blocked"
    /\ ~IsNone(dynamic_options)
    /\ Len(invocations) = 1
    /\ result.kind = "return"
    /\ ~result.value.success
    /\ result.value.error = "response.text requires a valid Part: finish_reason is SAFETY"

-----------------------------------------------------------------------------
(* LaughRxAISimple constructed under one environment *)

ApiKeys == { None, Some(""), Some("test-key") }

\* TOP_P settings: absent, unparsable, negative, zero, within (0, 1], above 1
TopPSettings ==
    { None, Some(""), Some("abc"), Some("0,5"), Some("-1"), Some("-0.2"), Some("0"),
      Some("0.0"), Some("-0"), Some("0.005"), Some("0.01"), Some("0.5"), Some(" 0.7 "),
      Some(".25"), Some("1"), Some("1.0"), Some("1.5"), Some("40"), Some("nan"),
      Some("inf"), Some("-inf") }

\* TOP_K settings: absent, unparsable, negative, zero, positive
TopKSettings ==
    { None, Some(""), Some("abc"), Some("3.5"), Some("-5"), Some("-0"), Some("0"),
      Some("1"), Some(" 7 "), Some("+3"), Some("40"), Some("1000") }

StopSettings == { None, Some(""), Some("  "), Some("END"), Some(" END , ,DISCLAIMER") }

ConstructEnvs ==
    { [GEMINI_API_KEY |-> k, TOP_P |-> p, TOP_K |-> t, STOP_SEQUENCES |-> q] :
          k \in ApiKeys, p \in TopPSettings, t \in TopKSettings, q \in StopSettings }

InitConstruct ==
    /\ pc = "ready"
    /\ fn = ""
    /\ symptoms = ""
    /\ duration = None
    /\ intensity = None
    /\ ai_response = << >>
    /\ response = None
    /\ NoGenerate
    /\ env \in ConstructEnvs
    /\ responses = << >>
    /\ NoBmi
    /\ NoCot
    /\ NoCall
    /\ result = NoResult

\* ai = LaughRxAISimple()
Construct ==
    /\ pc = "ready"
    /\ client' = IF LaughRxAISimple(env).ok THEN LaughRxAISimple(env).value ELSE None
    /\ result' = IF LaughRxAISimple(env).ok THEN Returned(LaughRxAISimple(env).value)
                 ELSE Raised(LaughRxAISimple(env).exception)
    /\ fn' = "LaughRxAISimple.__init__"
    /\ pc' = "done"
    /\ UNCHANGED <<symptoms, severityArgs, parseVars, dynamic_options, user_context,
                   response_type, model, invocations, serverVars, bmiArgs, cotArgs, callArgs>>

NextConstruct == Construct

SpecConstruct == InitConstruct /\ [][NextConstruct]_vars

\* the TOP_P (TOP_K) setting does not parse as a float (an int)
C15_TopPUnparsable == ~IsNone(env.TOP_P) /\ ~float_of_str(env.TOP_P.some).ok
C15_TopKUnparsable == ~IsNone(env.TOP_K) /\ ~int_of_str(env.TOP_K.some).ok

\* the TOP_P setting parses and is zero or negative
C15_TopPClampsToZero ==
    /\ ~IsNone(env.TOP_P)
    /\ float_of_str(env.TOP_P.some).ok
    /\ ~FloatLess(Finite(0), float_of_str(env.TOP_P.some).value)
    /\ float_of_str(env.TOP_P.some).value # NaN

\* C15: after LaughRxAISimple is constructed, 0 < top_p <= 1 and top_k is an
\* integer >= 0 for every TOP_P and TOP_K setting; unparsable settings fall
\* back to top_p = 0.9 and top_k = 40, and a top_p that clamps to 0 becomes
\* 0.01.
C15_SamplingConfigInRange ==
    (Called("LaughRxAISimple.__init__") /\ result.kind = "return") =>
        /\ client = result.value
        /\ client.top_p > 0 /\ client.top_p <= Milli
        /\ client.top_k \in Nat
        /\ (IsNone(env.TOP_P) \/ C15_TopPUnparsable) => 10 * client.top_p = 9 * Milli
        /\ (IsNone(env.TOP_K) \/ C15_TopKUnparsable) => client.top_k = 40
        /\ C15_TopPClampsToZero => 100 * client.top_p = Milli

\* constructed with a negative TOP_P and an unparsable TOP_K
C15_Witness ==
    /\ Called("LaughRxAISimple.__init__")
    /\ result.kind = "return"
    /\ env.TOP_P = Some("-0.2")
    /\ env.TOP_K = Some("3.5")
    /\ 100 * client.top_p = Milli
    /\ client.top_k = 40

-----------------------------------------------------------------------------
(* main.py: the HTTP server *)

\* number of requests the server handles
MaxRequests == 2

\* an HTTP response to a request
HttpResponse(route, request, status, body) ==
    [route |-> route, request |-> request, status |-> status, body |-> body]

\* class SymptomRequest(BaseModel): symptoms is a required str
SymptomRequest(body) ==
    IF IsNone(body.symptoms)
    THEN Raise("RequestValidationError", "symptoms: Field required")
    ELSE Ok([symptoms |-> body.symptoms.some, user_context |-> body.user_context])

\* the framework's answer to a body that is not a SymptomRequest
validation_error(e) == [status |-> 422, body |-> [detail |-> e.msg]]

\* str(HTTPException(status_code, detail)): "<status>: <detail>" where the
\* installed framework defines __str__, "" where it does not
HTTPException_str(status_code, detail, rendering) ==
    IF rendering = "status: detail" THEN NatToStr(status_code) \o ": " \o detail ELSE ""

HTTPExceptionRenderings == { "status: detail", "empty" }

\* a mutant of http_exception_handler: the error body is sent with status 200
http_exception_handler_ok(status_code, detail) ==
    [status |-> 200,
     body |-> [success |-> FALSE, error |-> detail, message |-> "Request failed"]]

\* lines 178-183
http_exception_handler(status_code, detail) ==
    [status |-> status_code,
     body |-> [success |-> FALSE, error |-> detail, message |-> "Request failed"]]

\* lines 71-79
root ==
    [status |-> 200,
     body |-> [message |-> "Welcome to LaughRx API!",
               description |-> "AI-powered medical assistant with humor",
               version |-> "1.0.0", docs |-> "/docs"]]

\* a mutant of health_check: the client is reported connected without being looked at
health_check_connected(ai_client) ==
    [status |-> 200,
     body |-> [status |-> "healthy", ai_status |-> "connected", version |-> "1.0.0"]]

\* lines 81-88
health_check(ai_client) ==
    [status |-> 200,
     body |-> [status |-> "healthy",
               ai_status |-> IF IsNone(ai_client) THEN "disconnected" ELSE "connected",
               version |-> "1.0.0"]]

\* lines 155-175
get_examples ==
    [status |-> 200,
     body |-> [examples |->
         << [symptoms |-> "I have a headache",
             expected_response |-> "Humorous roast + medical advice"],
            [symptoms |-> "I can't sleep",
             expected_response |-> "Sleep hygiene advice with humor"],
            [symptoms |-> "My back hurts from sitting",
             expected_response |-> "Posture advice with gentle teasing"] >>]]

\* result.get('error', 'Unknown error')
ErrorOf(generated) ==
    IF "error" \in DOMAIN generated THEN generated.error ELSE "Unknown error"

\* a mutant of generate_for: the request's user_context is passed on
generate_for_with_context(ai_client, request, m) ==
    IF IsNone(ai_client) THEN [invoked |-> << >>, outcome |-> NoResult]
    ELSE Simple_generate_response(ai_client, request.symptoms,
                                  PyDict(<< Pair("user_context", request.user_context) >>), m)

\* line 103 (141): ai_client.generate_response(request.symptoms), which the
\* handler reaches only with a client
generate_for(ai_client, request, m) ==
    IF IsNone(ai_client) THEN [invoked |-> << >>, outcome |-> NoResult]
    ELSE Simple_generate_response(ai_client, request.symptoms, None, m)

\* lines 90-127: the response and the invocations of the hosted model, where
\* call is generate_for(ai_client, request, model)
analyze_symptoms(ai_client, request, call, rendering) ==
    IF IsNone(ai_client)
    THEN [response |-> http_exception_handler(503, "AI service unavailable"),
          invoked |-> << >>]
    ELSE
    LET generated == call.outcome.value
        failure == HTTPException_str(500, "AI generation failed: " \o ErrorOf(generated),
                                     rendering)
    IN  [invoked |-> call.invoked,
         response |->
             IF call.outcome.kind = "raise"
             THEN http_exception_handler(500, "Internal server error: "
                                              \o call.outcome.exception.msg)
             ELSE IF generated.success
             THEN [status |-> 200,
                   body |-> [success |-> TRUE, response |-> generated.response.s,
                             symptoms |-> request.symptoms,
                             metadata |-> [model |-> "gemini-1.5-flash",
                                           response_time |-> "< 2 seconds",
                                           cost |-> "free tier",
                                           top_p |-> ai_client.top_p]]]
             ELSE http_exception_handler(500, "Internal server error: " \o failure)]

\* text[:200] + "..." if len(text) > 200 else text
Shortened(text) == IF Len(text) > 200 THEN SubSeq(text, 1, 200) \o "..." ELSE text

\* lines 129-153
quick_advice(ai_client, request, call, rendering) ==
    IF IsNone(ai_client)
    THEN [response |-> http_exception_handler(503, "AI service unavailable"),
          invoked |-> << >>]
    ELSE
    LET generated == call.outcome.value
    IN  [invoked |-> call.invoked,
         response |->
             IF call.outcome.kind = "raise"
             THEN http_exception_handler(500, call.outcome.exception.msg)
             ELSE IF generated.success
             THEN [status |-> 200,
                   body |-> [success |-> TRUE, advice |-> Shortened(generated.response.s),
                             symptoms |-> request.symptoms]]
             ELSE http_exception_handler(
                      500, HTTPException_str(500, "Failed to generate advice", rendering))]

\* environments of the server: the credential absent, empty, and set
ServerEnvs ==
    { NoEnv,
      [NoEnv EXCEPT !.GEMINI_API_KEY = Some("")],
      WithKey(None, None, None),
      WithKey(Some("0"), Some("-5"), Some("END")) }

\* what the hosted model does with one request
ServerModels ==
    { [outcome |-> "text", detail |-> "ROAST: screens again? DIAGNOSIS: tension headache. ADVICE: drink water."],
      [outcome |-> "error", detail |-> "429 Resource has been exhausted (e.g. check quota)."],
      [outcome |-> "blocked", detail |-> "finish_reason is SAFETY"] }

\* JSON bodies posted to /analyze and /quick-advice
RequestBodies ==
    { [symptoms |-> None, user_context |-> None],
      [symptoms |-> None, user_context |-> TestContext],
      [symptoms |-> Some(""), user_context |-> None],
      [symptoms |-> Some("I have a headache"), user_context |-> None],
      [symptoms |-> Some("I have a headache"), user_context |-> TestContext],
      [symptoms |-> Some("I have a headache"),
       user_context |-> PyDict(<< Pair("age", PyInt(620)), Pair("medication", PyStr("aspirin")) >>)],
      [symptoms |-> Some(ChestPainText), user_context |-> None],
      [symptoms |-> Some(ChestPainText), user_context |-> PyDict(<< >>)] }

\* the module is imported: ai_client = None, the server has not started
InitServer ==
    /\ pc = "boot"
    /\ fn = ""
    /\ symptoms = ""
    /\ duration = None
    /\ intensity = None
    /\ ai_response = << >>
    /\ response = None
    /\ NoGenerate
    /\ env \in ServerEnvs
    /\ responses = << >>
    /\ NoBmi
    /\ NoCot
    /\ NoCall
    /\ result = NoResult

requestVars == <<severityArgs, parseVars, dynamic_options, user_context, response_type,
                 env, bmiArgs, cotArgs, callArgs, result>>

\* lines 44-52: the startup hook; a failed construction is printed and dropped
startup_event ==
    /\ pc = "boot"
    /\ client' = IF LaughRxAISimple(env).ok THEN LaughRxAISimple(env).value ELSE None
    /\ fn' = "startup_event"
    /\ pc' = "serving"
    /\ UNCHANGED <<symptoms, model, invocations, responses, requestVars>>

\* the response of handler `answer` to `request` on `route` is sent
Sent(route, request, answer) ==
    Append(responses, HttpResponse(route, request, answer.status, answer.body))

\* the GET handlers read ai_client only
GetRoot ==
    /\ pc = "serving"
    /\ Len(responses) < MaxRequests
    /\ responses' = Sent("/", None, root)
    /\ fn' = "/"
    /\ UNCHANGED <<pc, symptoms, model, client, invocations, requestVars>>

GetHealth ==
    /\ pc = "serving"
    /\ Len(responses) < MaxRequests
    /\ responses' = Sent("/health", None, health_check(client))
    /\ fn' = "/health"
    /\ UNCHANGED <<pc, symptoms, model, client, invocations, requestVars>>

GetExamples ==
    /\ pc = "serving"
    /\ Len(responses) < MaxRequests
    /\ responses' = Sent("/examples", None, get_examples)
    /\ fn' = "/examples"
    /\ UNCHANGED <<pc, symptoms, model, client, invocations, requestVars>>

\* a POST request whose body is not a SymptomRequest never reaches the handler
PostInvalid ==
    /\ pc = "serving"
    /\ Len(responses) < MaxRequests
    /\ \E route \in { "/analyze", "/quick-advice" }, body \in RequestBodies :
          /\ ~SymptomRequest(body).ok
          /\ responses' = Sent(route, body, validation_error(SymptomRequest(body).exception))
          /\ fn' = route
    /\ UNCHANGED <<pc, symptoms, model, client, invocations, requestVars>>

\* POST /analyze with a body that is a SymptomRequest
PostAnalyze ==
    /\ pc = "serving"
    /\ Len(responses) < MaxRequests
    /\ \E body \in RequestBodies, m \in ServerModels, rendering \in HTTPExceptionRenderings :
          /\ SymptomRequest(body).ok
          /\ \E request \in { SymptomRequest(body).value } :
             \E call \in { generate_for(client, request, m) } :
             \E handled \in { analyze_symptoms(client, request, call, rendering) } :
                 /\ symptoms' = request.symptoms
                 /\ model' = m
                 /\ invocations' = invocations \o handled.invoked
                 /\ responses' = Sent("/analyze", body, handled.response)
    /\ fn' = "/analyze"
    /\ UNCHANGED <<pc, client, requestVars>>

\* POST /quick-advice with a body that is a SymptomRequest
PostQuickAdvice ==
    /\ pc = "serving"
    /\ Len(responses) < MaxRequests
    /\ \E body \in RequestBodies, m \in ServerModels, rendering \in HTTPExceptionRenderings :
          /\ SymptomRequest(body).ok
          /\ \E request \in { SymptomRequest(body).value } :
             \E call \in { generate_for(client, request, m) } :
             \E handled \in { quick_advice(client, request, call, rendering) } :
                 /\ symptoms' = request.symptoms
                 /\ model' = m
                 /\ invocations' = invocations \o handled.invoked
                 /\ responses' = Sent("/quick-advice", body, handled.response)
    /\ fn' = "/quick-advice"
    /\ UNCHANGED <<pc, client, requestVars>>

NextServer ==
    \/ startup_event
    \/ GetRoot
    \/ GetHealth
    \/ GetExamples
    \/ PostInvalid
    \/ PostAnalyze
    \/ PostQuickAdvice

SpecServer == InitServer /\ [][NextServer]_vars

-----------------------------------------------------------------------------
(* Claims about the HTTP server *)

PostRoutes == { "/analyze", "/quick-advice" }

\* the startup hook ran and left ai_client = None
StartupFailed == pc = "serving" /\ IsNone(client)

\* the last response answers a body that passed validation on `route`
LastHandled(route) ==
    /\ pc = "serving"
    /\ fn = route
    /\ responses # << >>
    /\ ~IsNone(responses[Len(responses)].request.symptoms)

\* C11 (as stated): a missing API credential is fatal at startup: after the
\* client failed to initialise in the startup hook the server never answers a
\* request (no /health, /analyze or /examples response is produced).
C11_MissingCredentialIsFatal ==
    StartupFailed => responses = << >>

\* C11 (amended): a missing API credential is not fatal at startup: the
\* startup hook drops the failure, leaves the client absent exactly when
\* GEMINI_API_KEY is absent or empty, and the server goes on answering:
\* /health with ai_status "disconnected", / and /examples as usual, /analyze
\* and /quick-advice with 503 (422 for a body without symptoms), and the
\* model is never called.
C11_MissingCredentialDegrades ==
    /\ pc = "serving" => (IsNone(client) <=> getenv(env, "GEMINI_API_KEY", "") = "")
    /\ StartupFailed =>
          /\ invocations = << >>
          /\ \A i \in DOMAIN responses :
                /\ responses[i].route = "/health" =>
                      /\ responses[i].status = 200
                      /\ responses[i].body.ai_status = "disconnected"
                /\ responses[i].route \in { "/", "/examples" } => responses[i].status = 200
                /\ responses[i].route \in PostRoutes =>
                      responses[i].status
                          = IF IsNone(responses[i].request.symptoms) THEN 422 ELSE 503

\* after a failed startup /health and /analyze were both answered
C11_Witness ==
    /\ StartupFailed
    /\ IsNone(env.GEMINI_API_KEY)
    /\ Len(responses) = 2
    /\ responses[1].route = "/health"
    /\ responses[1].body.ai_status = "disconnected"
    /\ responses[2].route = "/analyze"
    /\ responses[2].status = 503

\* C12: POST /analyze after startup: without a client the request gets 503
\* and the model is never called; with a client, a failed generation gets 500
\* with body {success: false, error: <string>} and a successful one gets
\* success = true with the model text and the request's symptoms.
C12_AnalyzeOutcomes ==
    /\ StartupFailed => invocations = << >>
    /\ LastHandled("/analyze") =>
          LET last == responses[Len(responses)]
          IN  /\ IsNone(client) =>
                    /\ last.status = 503
                    /\ last.body.success = FALSE
              /\ (~IsNone(client) /\ model.outcome # "text") =>
                    /\ last.status = 500
                    /\ DOMAIN last.body = { "success", "error", "message" }
                    /\ last.body.success = FALSE
                    /\ Contains(last.body.error, "Internal server error: ")
              /\ (~IsNone(client) /\ model.outcome = "text") =>
                    /\ last.status = 200
                    /\ last.body.success = TRUE
                    /\ last.body.response = model.detail
                    /\ last.body.symptoms = last.request.symptoms.some
                    /\ last.body.symptoms = symptoms

\* a successful and then a failed generation
C12_Witness ==
    /\ LastHandled("/analyze")
    /\ ~IsNone(client)
    /\ Len(responses) = 2
    /\ responses[1].route = "/analyze"
    /\ responses[1].status = 200
    /\ responses[2].status = 500
    /\ model.outcome = "error"

\* C13: a POST /analyze (or /quick-advice) request whose symptoms field is
\* empty or missing is rejected with an HTTP 4xx validation failure and never
\* reaches the model invocation.
C13_EmptySymptomsRejected ==
    /\ \A i \in DOMAIN responses :
          (/\ responses[i].route \in PostRoutes
           /\ responses[i].request.symptoms \in { None, Some("") })
              => responses[i].status \in 400..499
    /\ (\A i \in DOMAIN responses :
           /\ responses[i].route \in PostRoutes
           /\ responses[i].request.symptoms \in { None, Some("") })
          => invocations = << >>

\* the responses to requests that reached the model invocation
C16_Generated ==
    { i \in DOMAIN responses :
          responses[i].route \in PostRoutes /\ responses[i].status \in { 200, 500 } }

\* C16: no retry: each request handled by /analyze (and each call of
\* LaughRxAISimple.generate_response it makes) invokes the model at most
\* once, also when the invocation fails: a failed invocation is followed by
\* the error response, never by a second invocation.
C16_NoRetry ==
    /\ Len(invocations) <= Cardinality(C16_Generated)
    /\ Len(invocations) <= Len(responses)
    /\ (LastHandled("/analyze") /\ ~IsNone(client) /\ model.outcome # "text") =>
          /\ responses[Len(responses)].status = 500
          /\ invocations # << >>
          /\ invocations[Len(invocations)].prompt
                = FullPrompt(client, symptoms, None).value

\* two requests whose invocations both failed
C16_Witness ==
    /\ LastHandled("/analyze")
    /\ Len(responses) = 2
    /\ responses[1].route = "/analyze"
    /\ responses[1].status = 500
    /\ responses[2].status = 500
    /\ Len(invocations) = 2
    /\ model.outcome = "blocked"

-----------------------------------------------------------------------------
(* Claims about the temperature of the invocation *)

\* the temperature LaughRxAISimple.generate_response invokes the model with
\* for the symptoms text g (under the options of the current call)
C14_TemperatureFor(g) ==
    SimpleInvocation(client, FullPrompt(client, g, None).value, None)
        .generation_config.temperature

\* C14: the temperature passed to the model invocation depends on the
\* input's context: an input classified EMERGENCY or SERIOUS_MEDICAL is
\* invoked with a strictly lower temperature than an input classified
\* GENERAL_HEALTH or WELLNESS_TIP.
C14_TemperatureFollowsContext ==
    (pc = "done" /\ determine_context(symptoms) \in { "EMERGENCY", "SERIOUS_MEDICAL" }) =>
        \A i \in DOMAIN invocations :
            \A g \in RequestSymptoms :
                determine_context(g) \in { "GENERAL_HEALTH", "WELLNESS_TIP" } =>
                    invocations[i].generation_config.temperature < C14_TemperatureFor(g)

-----------------------------------------------------------------------------
(* Claims about LaughRxAI.generate_response *)

C19_ResponseTypes == { "zero_shot", "one_shot", "multi_shot", "chain_of_thought", "standard" }

\* C19: with a model that returns text, LaughRxAI.generate_response returns
\* success = True with a response and metadata (response_type, temperature,
\* tokens_used) for each response_type; success = False is returned only when
\* the model call itself fails.
C19_SucceedsWithAnsweringModel ==
    (Called("LaughRxAI.generate_response") /\ response_type \in C19_ResponseTypes) =>
        /\ result.kind = "return"
        /\ model.outcome = "text" =>
              /\ result.value.success
              /\ { "response", "metadata" } \subseteq DOMAIN result.value
              /\ { "response_type", "temperature", "tokens_used" }
                     \subseteq DOMAIN result.value.metadata
              /\ result.value.metadata.response_type = response_type
        /\ ~result.value.success => (model.outcome # "text" /\ invocations # << >>)

-----------------------------------------------------------------------------
(* The template renderers applied to one symptoms text and one context *)

MaxEntries == 2

\* context entries: the fields the renderers know, a field they do not know,
\* values that are str or numbers, truthy or falsy
ContextEntries ==
    { Pair("age", PyStr("25")), Pair("age", PyInt(250)), Pair("age", PyInt(620)),
      Pair("age", PyInt(0)),
      Pair("lifestyle", PyStr("desk job")), Pair("lifestyle", PyStr("")),
      Pair("previous_issues", PyStr("migraine")),
      Pair("occupation", PyStr("teacher")) }

\* a dict holds a key once
DistinctKeys(items) ==
    \A i, j \in DOMAIN items : items[i].key = items[j].key => i = j

\* user_context: None, or a dict of up to MaxEntries entries in any order
RenderContexts ==
    { None } \cup
    { PyDict(items) : items \in { entries \in UNION { [1..n -> ContextEntries] : n \in 0..MaxEntries } :
                                     DistinctKeys(entries) } }

InitRender ==
    /\ pc = "ready"
    /\ fn = ""
    /\ symptoms \in RequestSymptoms
    /\ duration = None
    /\ intensity = None
    /\ ai_response = << >>
    /\ response = None
    /\ dynamic_options = None
    /\ user_context \in RenderContexts
    /\ response_type = ""
    /\ model = NoModel
    /\ client = None
    /\ invocations = << >>
    /\ NoServer
    /\ NoBmi
    /\ NoCot
    /\ NoCall
    /\ result = NoResult

\* the values a renderer leaves alone
renderArgs == <<symptoms, severityArgs, parseVars, generateVars, serverVars, bmiArgs, cotArgs, callArgs>>

\* the outcome of a renderer as the result of the call
Outcome(rendered) ==
    IF rendered.ok THEN Returned(rendered.value) ELSE Raised(rendered.exception)

\* LaughRxPrompts().create_user_prompt(symptoms, user_context)
RenderUserPrompt ==
    /\ pc = "ready"
    /\ result' = Returned(PyStr(create_user_prompt(symptoms, user_context)))
    /\ fn' = "create_user_prompt"
    /\ pc' = "done"
    /\ UNCHANGED renderArgs

\* LaughRxZeroShotPrompting().create_zero_shot_prompt(symptoms, user_context)
RenderZeroShot ==
    /\ pc = "ready"
    /\ result' = Returned(PyStr(create_zero_shot_prompt(symptoms, user_context)))
    /\ fn' = "create_zero_shot_prompt"
    /\ pc' = "done"
    /\ UNCHANGED renderArgs

\* LaughRxStructuredOutput().create_structured_prompt(symptoms, user_context)
RenderStructured ==
    /\ pc = "ready"
    /\ result' = Outcome(create_structured_prompt(symptoms, user_context))
    /\ fn' = "create_structured_prompt"
    /\ pc' = "done"
    /\ UNCHANGED renderArgs

\* LaughRxOneShotPrompting().create_one_shot_prompt(symptoms,
\* ExampleType.BASIC_SYMPTOM, user_context)
RenderOneShot ==
    /\ pc = "ready"
    /\ result' = Outcome(create_one_shot_prompt(symptoms, PyEnum("ExampleType", "BASIC_SYMPTOM"),
                                                user_context))
    /\ fn' = "create_one_shot_prompt"
    /\ pc' = "done"
    /\ UNCHANGED renderArgs

\* LaughRxMultiShotPrompting().create_adaptive_multi_shot_prompt(symptoms, user_context)
RenderMultiShot ==
    /\ pc = "ready"
    /\ result' = Outcome(create_adaptive_multi_shot_prompt(symptoms, user_context))
    /\ fn' = "create_adaptive_multi_shot_prompt"
    /\ pc' = "done"
    /\ UNCHANGED renderArgs

\* LaughRxChainOfThought().create_chain_of_thought_prompt(symptoms, user_context)
RenderChainOfThought ==
    /\ pc = "ready"
    /\ result' = Outcome(create_chain_of_thought_prompt(symptoms, user_context))
    /\ fn' = "create_chain_of_thought_prompt"
    /\ pc' = "done"
    /\ UNCHANGED renderArgs

NextRender ==
    \/ RenderUserPrompt
    \/ RenderZeroShot
    \/ RenderStructured
    \/ RenderOneShot
    \/ RenderMultiShot
    \/ RenderChainOfThought

SpecRender == InitRender /\ [][NextRender]_vars

-----------------------------------------------------------------------------
(* Claims about the renderers *)

C17_Renderers ==
    { "create_user_prompt", "create_zero_shot_prompt", "create_structured_prompt",
      "create_one_shot_prompt", "create_adaptive_multi_shot_prompt",
      "create_chain_of_thought_prompt" }

\* the user prompt of a returned rendering
C17_UserPrompt == IF result.value.py = "str" THEN result.value.s ELSE result.value.user_prompt

\* one "key: value" pair for every entry, in the mapping's order, joined by ", "
RECURSIVE C17_Pairs(_)
C17_Pairs(items) ==
    IF items = << >> THEN ""
    ELSE Head(items).key \o ": " \o Str(Head(items).value)
         \o (IF Tail(items) = << >> THEN "" ELSE ", " \o C17_Pairs(Tail(items)))

\* the age entry on which chain_of_thought.py compares a non-number with 50
C17_AgeNotComparable ==
    /\ Truthy(Get(user_context, "age"))
    /\ ~IsNumber(Get(user_context, "age"))

\* the fields create_user_prompt renders, and the label it gives each
C17_Labels ==
    { [key |-> "age", label |-> "Age"], [key |-> "lifestyle", label |-> "Lifestyle"],
      [key |-> "previous_issues", label |-> "Previous issues"] }

\* the order in which create_user_prompt renders its fields
C17_LabelOrder ==
    { <<"age", "lifestyle">>, <<"lifestyle", "previous_issues">>, <<"age", "previous_issues">> }

\* C17: every renderer, create_user_prompt included, renders for every
\* non-empty context a user prompt that contains one "key: value" pair for
\* every entry, in the mapping's order, joined by ", ".
C17_WholeContextAppended ==
    (pc = "done" /\ fn \in C17_Renderers /\ Truthy(user_context)) =>
        /\ result.kind = "return"
        /\ Contains(C17_UserPrompt, C17_Pairs(user_context.items))

\* C17 (amended): the zero-shot, structured, one-shot and multi-shot renderers
\* append every entry of a non-empty context as "key: value" joined by ", ";
\* the chain-of-thought renderer does the same unless the age is truthy and
\* not a number, when it raises TypeError; create_user_prompt always returns
\* and renders only the truthy age, lifestyle and previous_issues, labelled
\* "Age", "Lifestyle" and "Previous issues", under "Additional context: ".
C17_ContextRendering ==
    /\ (pc = "done" /\ fn \in C17_Renderers \ { "create_user_prompt" } /\ Truthy(user_context)) =>
          IF fn = "create_chain_of_thought_prompt" /\ C17_AgeNotComparable
          THEN result.kind = "raise" /\ result.exception.type = "TypeError"
          ELSE /\ result.kind = "return"
               /\ Contains(C17_UserPrompt,
                           (IF fn = "create_zero_shot_prompt"
                            THEN "\n\nAdditional information about me: " ELSE "\nContext: ")
                           \o C17_Pairs(user_context.items))
    /\ Called("create_user_prompt") =>
          /\ result.kind = "return"
          /\ Contains(C17_UserPrompt, "User's symptoms: " \o symptoms)
          /\ Truthy(user_context) =>
                /\ \A i \in DOMAIN user_context.items :
                      ~Contains(C17_UserPrompt, user_context.items[i].key \o ": ")
                /\ \A field \in C17_Labels :
                      IF Truthy(Get(user_context, field.key))
                      THEN Contains(C17_UserPrompt,
                                    field.label \o ": " \o Str(Get(user_context, field.key)))
                      ELSE ~Contains(C17_UserPrompt, field.label \o ": ")
                /\ \A first, second \in C17_Labels :
                      ( /\ <<first.key, second.key>> \in C17_LabelOrder
                        /\ Truthy(Get(user_context, first.key))
                        /\ Truthy(Get(user_context, second.key))
                        /\ \A third \in C17_Labels :
                              (<<first.key, third.key>> \in C17_LabelOrder
                               /\ <<third.key, second.key>> \in C17_LabelOrder)
                                  => ~Truthy(Get(user_context, third.key)) )
                      => Contains(C17_UserPrompt,
                                  first.label \o ": " \o Str(Get(user_context, first.key))
                                  \o ", " \o second.label \o ": "
                                  \o Str(Get(user_context, second.key)))
                /\ Contains(C17_UserPrompt, "\nAdditional context: ")
                      <=> \E i \in DOMAIN user_context.items :
                             /\ user_context.items[i].key
                                   \in { "age", "lifestyle", "previous_issues" }
                             /\ Truthy(user_context.items[i].value)

\* create_user_prompt has rendered a context with an age and a field it does not know
C17_Witness ==
    /\ Called("create_user_prompt")
    /\ Truthy(user_context)
    /\ Len(user_context.items) = 2
    /\ Truthy(Get(user_context, "age"))
    /\ Truthy(Get(user_context, "occupation"))

\* C20: create_chain_of_thought_prompt returns a prompt dict and does not
\* raise, for every symptoms text and every context whose values are strings
\* or numbers (age given as "25" included).
C20_ChainOfThoughtTotal ==
    Called("create_chain_of_thought_prompt") =>
        /\ result.kind = "return"
        /\ result.value.py = "dict"

-----------------------------------------------------------------------------
(* function_calling.py: LaughRxFunctionCalling.calculate_bmi *)

\* The code computes in binary floating point. Its quotients are the exact
\* ones up to a relative error far below the distance between two different
\* fractions of these sizes, so a comparison or a rounding goes the exact way
\* unless the exact value lies on the threshold or halfway between two tenths;
\* there the floating-point value may fall on either side, and both outcomes
\* are kept.

\* round(num / den, 0) for den > 0 and num >= 0
RoundedQuotients(num, den) ==
    IF 2 * (num % den) < den THEN { num \div den }
    ELSE IF 2 * (num % den) > den THEN { (num \div den) + 1 }
    ELSE { num \div den, (num \div den) + 1 }

\* num / den < twice / 2 for den > 0
QuotientBelow(num, den, twice) ==
    IF 2 * num = twice * den THEN { TRUE, FALSE } ELSE { 2 * num < twice * den }

\* lines 307-318: the category and the advice of a bmi below 18.5, below 25,
\* below 30 or not
BmiCategory(below18_5, below25, below30) ==
    IF below18_5
    THEN [category |-> "Underweight",
          advice |-> "Consider consulting a nutritionist for healthy weight gain"]
    ELSE IF below25
    THEN [category |-> "Normal weight",
          advice |-> "Maintain current healthy weight through balanced diet and exercise"]
    ELSE IF below30
    THEN [category |-> "Overweight",
          advice |-> "Consider gradual weight loss through diet and exercise"]
    ELSE [category |-> "Obese",
          advice |-> "Consult healthcare provider for weight management plan"]

\* calculate_bmi(weight_kg, height_cm): the outcomes of the call. With the
\* arguments in tenths, bmi = weight.n * 100000 / height.n^2, and
\* height_m ** 2 = height.n^2 / 1000000.
calculate_bmi(weight, height) ==
    IF height.n = 0 THEN { Raise("ZeroDivisionError", "float division by zero") }
    ELSE { Ok([py |-> "dict",
               bmi |-> PyFloat(tenths),
               category |-> BmiCategory(below18_5, below25, below30).category,
               health_advice |-> BmiCategory(below18_5, below25, below30).advice,
               ideal_weight_range |-> Str(PyFloat(low)) \o "-" \o Str(PyFloat(high)) \o " kg"]) :
             <<tenths, below18_5, below25, below30, low, high>> \in
                 RoundedQuotients(weight.n * 1000000, height.n * height.n)
                 \X QuotientBelow(weight.n * 100000, height.n * height.n, 37)
                 \X QuotientBelow(weight.n * 100000, height.n * height.n, 50)
                 \X QuotientBelow(weight.n * 100000, height.n * height.n, 60)
                 \X RoundedQuotients(185 * height.n * height.n, 1000000)
                 \X RoundedQuotients(249 * height.n * height.n, 1000000) }

MinWeightKg == 40
MaxWeightKg == 120
MinHeightCm == 150
MaxHeightCm == 200

\* whole kilograms and centimetres of adults, and the height 0
Weights == { PyInt(10 * kg) : kg \in MinWeightKg..MaxWeightKg }
Heights == { PyInt(10 * cm) : cm \in { 0 } \cup MinHeightCm..MaxHeightCm }

InitBmi ==
    /\ pc = "ready"
    /\ fn = ""
    /\ symptoms = ""
    /\ duration = None
    /\ intensity = None
    /\ ai_response = << >>
    /\ response = None
    /\ NoGenerate
    /\ NoServer
    /\ weight_kg \in Weights
    /\ height_cm \in Heights
    /\ NoCot
    /\ NoCall
    /\ result = NoResult

\* LaughRxFunctionCalling().calculate_bmi(weight_kg, height_cm)
CalculateBmi ==
    /\ pc = "ready"
    /\ \E outcome \in calculate_bmi(weight_kg, height_cm) : result' = Outcome(outcome)
    /\ fn' = "calculate_bmi"
    /\ pc' = "done"
    /\ UNCHANGED renderArgs

NextBmi == CalculateBmi

SpecBmi == InitBmi /\ [][NextBmi]_vars

-----------------------------------------------------------------------------
(* Claims about calculate_bmi *)

\* the category of a bmi given in tenths
C18_CategoryOf(tenths) ==
    IF tenths < 185 THEN "Underweight"
    ELSE IF tenths < 250 THEN "Normal weight"
    ELSE IF tenths < 300 THEN "Overweight"
    ELSE "Obese"

\* the returned bmi less the exact quotient, times 10 * height_cm^2 (arguments
\* and bmi in tenths)
C18_Distance ==
    result.value.bmi.n * height_cm.n * height_cm.n - weight_kg.n * 1000000

\* C18: for positive weight and height calculate_bmi returns
\* bmi = weight_kg / (height_cm / 100)^2 rounded to one decimal and the
\* category of that returned bmi (Underweight below 18.5, Normal weight from
\* 18.5 to below 25, Overweight from 25 to below 30, Obese from 30); 70 kg and
\* 175 cm give 22.9 and "Normal weight".
C18_BmiAndCategory ==
    (Called("calculate_bmi") /\ weight_kg.n > 0 /\ height_cm.n > 0) =>
        /\ result.kind = "return"
        /\ 2 * C18_Distance <= height_cm.n * height_cm.n
        /\ 2 * C18_Distance >= 0 - height_cm.n * height_cm.n
        /\ result.value.category = C18_CategoryOf(result.value.bmi.n)
        /\ (weight_kg = PyInt(700) /\ height_cm = PyInt(1750)) =>
              (result.value.bmi = PyFloat(229) /\ result.value.category = "Normal weight")

-----------------------------------------------------------------------------
(* Claims about the results of function_calling, checked under SpecClassify *)

\* C22: immediate_actions of check_emergency_symptoms contains "Call 911
\* immediately" if and only if is_emergency is true; an input with no emergency
\* keyword gets is_emergency = false, call_911 = false, urgency_level "NORMAL"
\* and an empty immediate_actions.
C22_ActionsOnlyForEmergencies ==
    Called("check_emergency_symptoms") =>
        /\ InSeq("Call 911 immediately", result.value.immediate_actions)
              <=> result.value.is_emergency
        /\ ~result.value.is_emergency =>
              /\ ~result.value.call_911
              /\ result.value.urgency_level = "NORMAL"
              /\ result.value.immediate_actions = << >>

\* C24: in every result of analyze_symptom_severity, urgency is "immediate"
\* iff severity_level is "emergency", "urgent" iff it is "high", "routine" iff
\* it is "low" or "moderate", and follow_up_needed is true iff severity_level
\* is "high" or "emergency".
C24_UrgencyFollowsSeverity ==
    Called("analyze_symptom_severity") =>
        /\ result.value.severity_level \in { "low", "moderate", "high", "emergency" }
        /\ result.value.urgency \in { "routine", "urgent", "immediate" }
        /\ result.value.urgency = "immediate" <=> result.value.severity_level = "emergency"
        /\ result.value.urgency = "urgent" <=> result.value.severity_level = "high"
        /\ result.value.urgency = "routine"
              <=> result.value.severity_level \in { "low", "moderate" }
        /\ result.value.follow_up_needed
              <=> result.value.severity_level \in { "high", "emergency" }

\* a text without a high-severity keyword was escalated to "high" by its intensity
C24_Witness ==
    /\ Called("analyze_symptom_severity")
    /\ ~AnyKeywordIn(fc_high_severity, Lower(symptoms))
    /\ ~IsNone(intensity) /\ intensity.some >= 8
    /\ result.value.severity_level = "high"
    /\ result.value.urgency = "urgent"
    /\ result.value.follow_up_needed

\* C28: whenever analyze_symptom_severity returns severity_level "emergency"
\* for a text, check_emergency_symptoms on the same text returns
\* is_emergency = true and call_911 = true.
C28_DetectorsAgree ==
    (Called("analyze_symptom_severity") /\ result.value.severity_level = "emergency") =>
        /\ check_emergency_symptoms(symptoms).is_emergency
        /\ check_emergency_symptoms(symptoms).call_911

\* "stroke symptoms", which only the keyword "stroke" of the second detector
\* matches, was classified an emergency
C28_Witness ==
    /\ Called("analyze_symptom_severity")
    /\ result.value.severity_level = "emergency"
    /\ Contains(Lower(symptoms), "stroke symptoms")
    /\ check_emergency_symptoms(symptoms).emergency_types = << "neurological" >>

-----------------------------------------------------------------------------
(* Claims about the text around the JSON object, checked under SpecParse *)

\* a JSON object: the members between one pair of braces
C26_IsObject(text) ==
    /\ Len(text) >= 2
    /\ Head(text) = LBrace
    /\ text[Len(text)] = RBrace
    /\ \A i \in 2..(Len(text) - 1) : text[i].tok = "member"

\* the text without its longest prefix that holds no "{"
RECURSIVE C26_DropPrefix(_)
C26_DropPrefix(text) ==
    IF text = << >> \/ Head(text) = LBrace THEN text ELSE C26_DropPrefix(Tail(text))

\* the text without its longest suffix that holds no "}"
RECURSIVE C26_DropSuffix(_)
C26_DropSuffix(text) ==
    IF text = << >> \/ text[Len(text)] = RBrace THEN text
    ELSE C26_DropSuffix(SubSeq(text, 1, Len(text) - 1))

\* the output without a prefix that holds no "{" and a suffix that holds no "}"
C26_Core == C26_DropSuffix(C26_DropPrefix(ai_response))

\* the output is an object followed by text with a "}", or preceded by text
\* with a "{"
C26_BraceAdded ==
    /\ Len(ai_response) > 2
    /\ ~C26_IsObject(C26_Core)
    /\ \/ \E n \in 2..(Len(ai_response) - 1) :
             /\ C26_IsObject(SubSeq(ai_response, 1, n))
             /\ \A i \in (n + 1)..(Len(ai_response) - 1) : ai_response[i].tok = "text"
             /\ ai_response[Len(ai_response)] = RBrace
       \/ \E n \in 2..(Len(ai_response) - 1) :
             /\ C26_IsObject(SubSeq(ai_response, n, Len(ai_response)))
             /\ \A i \in 2..(n - 1) : ai_response[i].tok = "text"
             /\ ai_response[1] = LBrace

\* C26: for every JSON object J, every prefix without "{" and every suffix
\* without "}", parse_ai_response(prefix + J + suffix) equals
\* parse_ai_response(J); a prefix that adds a "{" or a suffix that adds a "}"
\* changes the parsed substring, which is then no object and yields the
\* fallback response.
C26_TextAroundObjectIgnored ==
    (Called("parse_ai_response") /\ IsNone(response)) =>
        /\ C26_IsObject(C26_Core) => result = parse_ai_response(C26_Core)
        /\ C26_BraceAdded =>
              /\ _extract_json_from_response(ai_response).value = C26_Core
              /\ result = Returned(C6_StaticFallback)

\* an object between a "}" and a "{" was parsed into a response of its own
C26_Witness ==
    /\ Called("parse_ai_response")
    /\ Len(ai_response) > 2
    /\ Head(ai_response) = RBrace
    /\ ai_response[Len(ai_response)] = LBrace
    /\ C26_IsObject(C26_Core)
    /\ result.kind = "return"
    /\ result.value # C6_StaticFallback

-----------------------------------------------------------------------------
(* chain_of_thought.py: LaughRxChainOfThought.generate_chain_of_thought *)

\* ThoughtStep: one step of the reasoning
ThoughtStep(step_number, step_type, thought, reasoning, conclusion) ==
    [step_number |-> step_number, step_type |-> PyEnum("ReasoningStep", step_type),
     thought |-> thought, reasoning |-> reasoning, conclusion |-> conclusion]

\* the members of ReasoningStep, in the order of the class
ReasoningStep ==
    << "SYMPTOM_IDENTIFICATION", "SEVERITY_ASSESSMENT", "DIFFERENTIAL_DIAGNOSIS",
       "RISK_EVALUATION", "TREATMENT_CONSIDERATION", "LIFESTYLE_ANALYSIS",
       "FOLLOW_UP_PLANNING" >>

\* the "steps" of the templates of _create_reasoning_templates
ReasoningTemplates ==
    [ simple_symptom |->
        << "Identify the primary symptom and any associated symptoms",
           "Assess severity using pain scale, duration, and impact on daily life",
           "Consider most common causes for this symptom in general population",
           "Evaluate any red flags that would require immediate attention",
           "Determine if self-care is appropriate or medical consultation needed",
           "Consider lifestyle factors that might be contributing",
           "Recommend monitoring and follow-up timeline" >>,
      complex_multi_symptom |->
        << "List all symptoms and group related ones together",
           "Identify the most concerning symptom and assess overall severity",
           "Consider symptom patterns and how they might be connected",
           "Think through body systems that could cause this combination",
           "Evaluate for emergency conditions that present with these symptoms",
           "Consider both physical and psychological contributing factors",
           "Prioritize recommendations based on most likely causes" >>,
      lifestyle_related |->
        << "Identify symptoms and their relationship to daily activities",
           "Assess how lifestyle factors might be contributing",
           "Consider the timeline of symptoms relative to lifestyle changes",
           "Evaluate the severity and impact on quality of life",
           "Think through which lifestyle modifications would be most effective",
           "Consider barriers to lifestyle changes and realistic goals",
           "Plan a step-by-step approach to improvement" >>,
      emergency_assessment |->
        << "Immediately identify any life-threatening symptoms",
           "Assess vital signs and consciousness level if available",
           "Consider time-sensitive conditions (stroke, heart attack, etc.)",
           "Evaluate need for immediate emergency services",
           "If not immediately life-threatening, assess urgency level",
           "Consider what information would help emergency responders",
           "Provide clear action steps prioritized by urgency" >>,
      wellness_optimization |->
        << "Understand the person's current health status and goals",
           "Assess current lifestyle patterns and habits",
           "Identify areas with the highest impact potential",
           "Consider the person's readiness and capacity for change",
           "Think through evidence-based interventions for their goals",
           "Plan a realistic, sustainable approach to improvement",
           "Consider how to track progress and adjust the plan" >> ]

\* self.reasoning_templates.get(reasoning_type, self.reasoning_templates["simple_symptom"])["steps"]
TemplateSteps(type) ==
    IF type \in DOMAIN ReasoningTemplates THEN ReasoningTemplates[type]
    ELSE ReasoningTemplates["simple_symptom"]

\* [item] if the condition holds, [] otherwise
When(condition, items) == IF condition THEN items ELSE << >>

\* ', '.join(parts) if parts else default
JoinOr(parts, default) == IF Len(parts) > 0 THEN Join(", ", parts) ELSE default

\* repr() of a key or a value of the context
Repr(v) == IF ~IsNone(v) /\ v.py = "str" THEN "'" \o v.s \o "'" ELSE Str(v)

\* str(user_context) of a dict
DictStr(context) ==
    "{" \o Join(", ", [i \in DOMAIN context.items |->
                          "'" \o context.items[i].key \o "': "
                              \o Repr(context.items[i].value)]) \o "}"

\* `word in str(user_context).lower()`
ContextMentions(context, word) == Contains(Lower(DictStr(context)), word)

_step_1_identify_symptoms(s, context) ==
    LET symptoms_lower == Lower(s)
        primary_symptoms ==
            When(Contains(symptoms_lower, "headache"), << "headache" >>)
            \o When(Contains(symptoms_lower, "pain"), << "pain" >>)
            \o When(Contains(symptoms_lower, "tired") \/ Contains(symptoms_lower, "fatigue"),
                    << "fatigue" >>)
            \o When(Contains(symptoms_lower, "nausea"), << "nausea" >>)
            \o When(Contains(symptoms_lower, "dizzy"), << "dizziness" >>)
        associated_symptoms ==
            When(Contains(symptoms_lower, "stress"), << "stress" >>)
            \o When(Contains(symptoms_lower, "sleep"), << "sleep issues" >>)
    IN  ThoughtStep(1, "SYMPTOM_IDENTIFICATION",
            "Patient reports: " \o s,
            "Primary symptoms identified: " \o JoinOr(primary_symptoms, "general complaint")
                \o ". Associated factors: " \o JoinOr(associated_symptoms, "none specified")
                \o ".",
            "This appears to be a " \o NatToStr(Len(primary_symptoms))
                \o "-symptom presentation with "
                \o (IF Len(associated_symptoms) > 0 THEN "lifestyle factors"
                    ELSE "no obvious triggers mentioned") \o ".")

\* severity_indicators of _step_2_assess_severity, in the order of the dict
SeverityIndicators ==
    << Pair("mild", << "slight", "minor", "little", "sometimes" >>),
       Pair("moderate", << "headache", "tired", "sore", "uncomfortable" >>),
       Pair("severe", << "severe", "intense", "unbearable", "can't", "unable" >>),
       Pair("emergency", << "chest pain", "difficulty breathing", "loss of consciousness" >>) >>

\* the loop of _step_2_assess_severity has no break: the last level with a
\* matching indicator stands
RECURSIVE SeverityLevelFrom(_, _, _)
SeverityLevelFrom(symptoms_lower, i, severity_level) ==
    IF i > Len(SeverityIndicators) THEN severity_level
    ELSE SeverityLevelFrom(symptoms_lower, i + 1,
             IF AnyKeywordIn(SeverityIndicators[i].value, symptoms_lower)
             THEN SeverityIndicators[i].key ELSE severity_level)

\* severity_level of _step_2_assess_severity
AssessedSeverity(s) == SeverityLevelFrom(Lower(s), 1, "mild")

_step_2_assess_severity(s, context) ==
    LET severity_level == AssessedSeverity(s)
    IN  ThoughtStep(2, "SEVERITY_ASSESSMENT",
            "Evaluating symptom severity and urgency",
            "Based on language used ('" \o s \o "'), this appears to be " \o severity_level
                \o " severity. No immediate red flags for emergency conditions detected.",
            "Severity assessment: " \o severity_level \o ". "
                \o (IF severity_level = "emergency" THEN "Immediate medical attention needed"
                    ELSE "Can proceed with systematic evaluation") \o ".")

_step_3_differential_diagnosis(s, context) ==
    LET symptoms_lower == Lower(s)
        possible_causes ==
            When(Contains(symptoms_lower, "headache"),
                 << "tension headache", "dehydration", "eye strain", "stress" >>)
            \o When(Contains(symptoms_lower, "tired") \/ Contains(symptoms_lower, "fatigue"),
                    << "poor sleep", "dehydration", "stress", "low iron" >>)
            \o When(Contains(symptoms_lower, "back pain") \/ Contains(symptoms_lower, "posture"),
                    << "muscle strain", "poor posture", "sedentary lifestyle" >>)
            \o When(Contains(symptoms_lower, "stomach") \/ Contains(symptoms_lower, "nausea"),
                    << "dietary issues", "stress", "viral infection" >>)
            \o When(Truthy(context) /\ (\/ Get(context, "job") = PyStr("desk job")
                                        \/ ContextMentions(context, "computer")),
                    << "occupational factors" >>)
            \o When(Truthy(context) /\ ContextMentions(context, "stress"),
                    << "stress-related" >>)
    IN  ThoughtStep(3, "DIFFERENTIAL_DIAGNOSIS",
            "Considering most likely causes for this symptom pattern",
            "Given the symptoms and context, possible causes include: "
                \o JoinOr(Prefix(possible_causes, 4), "general lifestyle factors") \o ".",
            "Most likely cause appears to be "
                \o (IF Len(possible_causes) > 0 THEN possible_causes[1] ELSE "lifestyle-related")
                \o ", but will consider other possibilities.")

\* _step_4_risk_evaluation, once `age > 50` has been evaluated (TRUE or FALSE)
Step4RiskEvaluation(s, context, over_fifty) ==
    LET symptoms_lower == Lower(s)
        red_flags ==
            When(Contains(symptoms_lower, "chest pain"), << "cardiac symptoms" >>)
            \o When(Contains(symptoms_lower, "severe headache"), << "neurological concern" >>)
            \o When(Contains(symptoms_lower, "difficulty breathing"), << "respiratory distress" >>)
        risk_factors ==
            When(Truthy(context) /\ over_fifty, << "age-related considerations" >>)
            \o When(Truthy(context) /\ ContextMentions(context, "medication"),
                    << "medication interactions" >>)
    IN  ThoughtStep(4, "RISK_EVALUATION",
            "Evaluating for red flags and risk factors",
            "Red flags identified: " \o JoinOr(red_flags, "none") \o ". Risk factors: "
                \o JoinOr(risk_factors, "minimal") \o ".",
            "Risk level: "
                \o (IF Len(red_flags) > 0 THEN "HIGH - immediate attention needed"
                    ELSE "LOW - can proceed with conservative management") \o ".")

\* treatment_level.replace('_', ' ')
ReplaceUnderscores(s) ==
    Join("", [i \in 1..Len(s) |-> IF SubSeq(s, i, i) = "_" THEN " " ELSE SubSeq(s, i, i)])

_step_5_treatment_consideration(s, context) ==
    LET symptoms_lower == Lower(s)
        treatment_level ==
            IF Contains(symptoms_lower, "severe") \/ Contains(symptoms_lower, "chest pain")
            THEN "emergency"
            ELSE IF Contains(symptoms_lower, "persistent") \/ Contains(symptoms_lower, "weeks")
            THEN "medical_consultation"
            ELSE "self_care"
        treatment_options ==
            [ self_care |-> << "rest", "hydration", "lifestyle modifications" >>,
              medical_consultation |-> << "see healthcare provider", "monitoring", "possible tests" >>,
              emergency |-> << "immediate medical attention", "emergency services" >> ]
    IN  ThoughtStep(5, "TREATMENT_CONSIDERATION",
            "Determining appropriate level of treatment",
            "Based on severity and risk assessment, this requires "
                \o ReplaceUnderscores(treatment_level) \o " level intervention.",
            "Treatment approach: " \o Join(", ", treatment_options[treatment_level]) \o ".")

_step_6_lifestyle_analysis(s, context) ==
    LET symptoms_lower == Lower(s)
        headache == Contains(symptoms_lower, "headache")
        back == Contains(symptoms_lower, "back pain") \/ Contains(symptoms_lower, "posture")
        tired == Contains(symptoms_lower, "tired")
        lifestyle_factors ==
            When(headache, << "screen time", "hydration", "sleep" >>)
            \o When(back, << "posture", "exercise", "ergonomics" >>)
            \o When(tired, << "sleep quality", "stress", "nutrition" >>)
        recommendations ==
            When(headache, << "reduce screen time", "increase water intake",
                              "improve sleep hygiene" >>)
            \o When(back, << "improve posture", "regular movement", "ergonomic setup" >>)
            \o When(tired, << "sleep schedule", "stress management", "balanced diet" >>)
    IN  ThoughtStep(6, "LIFESTYLE_ANALYSIS",
            "Analyzing lifestyle contributing factors",
            "Key lifestyle factors likely contributing: "
                \o JoinOr(Prefix(lifestyle_factors, 3), "general wellness") \o ".",
            "Lifestyle modifications recommended: "
                \o JoinOr(Prefix(recommendations, 3), "general health maintenance") \o ".")

_step_7_follow_up_planning(s, context) ==
    LET symptoms_lower == Lower(s)
        severe == Contains(symptoms_lower, "severe")
        chronic == Contains(symptoms_lower, "chronic") \/ Contains(symptoms_lower, "weeks")
        follow_up_timeline ==
            IF severe THEN "24-48 hours" ELSE IF chronic THEN "2-4 weeks" ELSE "1-2 weeks"
        monitoring_points ==
            IF severe THEN << "symptom progression", "emergency signs", "treatment response" >>
            ELSE IF chronic
            THEN << "gradual improvement", "lifestyle changes", "need for specialist" >>
            ELSE << "symptom improvement", "new symptoms", "response to treatment" >>
    IN  ThoughtStep(7, "FOLLOW_UP_PLANNING",
            "Planning follow-up and monitoring strategy",
            "Given the nature of symptoms, follow-up should occur in "
                \o follow_up_timeline \o ".",
            "Monitor for: " \o Join(", ", monitoring_points)
                \o ". Seek medical attention if symptoms worsen or new concerning symptoms develop.")

\* the loop of _generate_response_from_reasoning over the steps: primary_cause
RECURSIVE PrimaryCauseFrom(_, _)
PrimaryCauseFrom(thought_steps, primary_cause) ==
    IF thought_steps = << >> THEN primary_cause
    ELSE LET step == Head(thought_steps)
         IN  PrimaryCauseFrom(Tail(thought_steps),
                 IF step.step_type.name # "DIFFERENTIAL_DIAGNOSIS" THEN primary_cause
                 ELSE IF Contains(step.reasoning, "tension headache") THEN "tension headache"
                 ELSE IF Contains(step.reasoning, "dehydration") THEN "dehydration"
                 ELSE primary_cause)

\* the loop of _generate_response_from_reasoning over the steps: severity
RECURSIVE SeverityFrom(_, _)
SeverityFrom(thought_steps, severity) ==
    IF thought_steps = << >> THEN severity
    ELSE LET step == Head(thought_steps)
         IN  SeverityFrom(Tail(thought_steps),
                 IF step.step_type.name # "SEVERITY_ASSESSMENT" THEN severity
                 ELSE IF Contains(step.conclusion, "severe") THEN "severe"
                 ELSE IF Contains(step.conclusion, "mild") THEN "mild"
                 ELSE severity)

\* the roasts end with an emoji, which is left out here
_generate_reasoning_based_roast(s, primary_cause, context) ==
    IF Contains(primary_cause, "dehydration")
    THEN "Let me guess - you've been treating water like it's optional while your body sends increasingly desperate signals? Your cells are probably staging a hydration protest right about now!"
    ELSE IF Contains(primary_cause, "tension headache")
    THEN "Ah, the classic 'my head is in a vice grip' situation! I bet you've been best friends with stress and screens while treating relaxation like a foreign concept. Your neck muscles are probably tighter than your schedule!"
    ELSE IF Contains(primary_cause, "posture")
    THEN "Congratulations on your successful evolution into a human question mark! Your spine has probably forgotten what 'straight' means after all that quality time with your desk."
    ELSE "Your body is clearly trying to send you a message, but you've been too busy to RSVP to its complaints! Time to start listening to what it's been trying to tell you."

_generate_reasoning_based_diagnosis(primary_cause, severity) ==
    IF Contains(primary_cause, "dehydration")
    THEN "Based on my analysis, this appears to be " \o severity
         \o " dehydration with possible electrolyte imbalance affecting your overall well-being."
    ELSE IF Contains(primary_cause, "tension headache")
    THEN "My reasoning points to a " \o severity
         \o " tension-type headache, likely caused by muscle tension and stress-related factors."
    ELSE IF Contains(primary_cause, "posture")
    THEN "This appears to be " \o severity
         \o " postural strain affecting your musculoskeletal system from prolonged poor positioning."
    ELSE "My step-by-step analysis suggests " \o severity
         \o " symptoms likely related to lifestyle factors requiring attention."

\* the first loop of _generate_reasoning_based_advice
RECURSIVE AdviceParts(_)
AdviceParts(thought_steps) ==
    IF thought_steps = << >> THEN << >>
    ELSE LET step == Head(thought_steps)
         IN  (IF step.step_type.name # "LIFESTYLE_ANALYSIS" THEN << >>
              ELSE When(Contains(step.conclusion, "hydration"), << "increase your water intake" >>)
                   \o When(Contains(step.conclusion, "posture"),
                           << "improve your posture and take regular breaks" >>)
                   \o When(Contains(step.conclusion, "sleep"), << "optimize your sleep hygiene" >>)
                   \o When(Contains(step.conclusion, "stress"),
                           << "implement stress management techniques" >>))
             \o AdviceParts(Tail(thought_steps))

_generate_reasoning_based_advice(thought_steps, treatment_approach) ==
    LET advice_parts == AdviceParts(thought_steps)
        follow_up ==
            IF \E i \in DOMAIN thought_steps :
                   /\ thought_steps[i].step_type.name = "FOLLOW_UP_PLANNING"
                   /\ Contains(thought_steps[i].reasoning, "24-48 hours")
            THEN "seek medical attention within 24-48 hours if symptoms don't improve"
            ELSE "monitor your symptoms and consult a healthcare professional if they persist or worsen"
    IN  IF Len(advice_parts) > 0
        THEN "Based on my reasoning, I recommend you " \o Join(", ", Prefix(advice_parts, 3))
             \o ". Most importantly, " \o follow_up \o "."
        ELSE "My analysis suggests focusing on general wellness improvements and lifestyle modifications. Please "
             \o follow_up \o "."

_generate_response_from_reasoning(s, thought_steps, context) ==
    LET primary_cause == PrimaryCauseFrom(thought_steps, "lifestyle factors")
        severity == SeverityFrom(thought_steps, "moderate")
        treatment_approach == "self-care with monitoring"
    IN  [ roast |-> _generate_reasoning_based_roast(s, primary_cause, context),
          diagnosis |-> _generate_reasoning_based_diagnosis(primary_cause, severity),
          advice |-> _generate_reasoning_based_advice(thought_steps, treatment_approach) ]

\* count / of * 100 as a float, in tenths (exact whenever `of` divides
\* count * 1000, as it does for every count of steps that occurs)
Percentage(count, of) == (count * 1000) \div of

_assess_reasoning_quality(thought_steps) ==
    LET completeness_score == Percentage(Len(thought_steps), 7)
        step_types_covered == { thought_steps[i].step_type : i \in DOMAIN thought_steps }
        coverage_score == Percentage(Cardinality(step_types_covered), Len(ReasoningStep))
    IN  [ completeness_score |-> IF completeness_score > 1000 THEN PyInt(1000)
                                 ELSE PyFloat(completeness_score),
          coverage_score |-> PyFloat(coverage_score),
          total_steps |-> Len(thought_steps),
          reasoning_depth |-> IF Len(thought_steps) >= 6 THEN "thorough" ELSE "basic",
          quality_rating |-> IF completeness_score >= 800 THEN "high" ELSE "moderate" ]

\* a mutant of ThoughtStepAt: the thought is the template's description
ThoughtStepFromTemplate(s, context, i, step_description, over_fifty) ==
    [ (CASE i = 1 -> _step_1_identify_symptoms(s, context)
         [] i = 2 -> _step_2_assess_severity(s, context)
         [] i = 3 -> _step_3_differential_diagnosis(s, context)
         [] i = 4 -> Step4RiskEvaluation(s, context, over_fifty)
         [] i = 5 -> _step_5_treatment_consideration(s, context)
         [] i = 6 -> _step_6_lifestyle_analysis(s, context)
         [] i = 7 -> _step_7_follow_up_planning(s, context)
         [] OTHER -> ThoughtStep(i, "SYMPTOM_IDENTIFICATION", step_description,
                                 "Additional analysis step", "Continuing systematic evaluation"))
      EXCEPT !.thought = step_description ]

\* the body of the loop of _analyze_symptoms_step_by_step
ThoughtStepAt(s, context, i, step_description, over_fifty) ==
    CASE i = 1 -> _step_1_identify_symptoms(s, context)
      [] i = 2 -> _step_2_assess_severity(s, context)
      [] i = 3 -> _step_3_differential_diagnosis(s, context)
      [] i = 4 -> Step4RiskEvaluation(s, context, over_fifty)
      [] i = 5 -> _step_5_treatment_consideration(s, context)
      [] i = 6 -> _step_6_lifestyle_analysis(s, context)
      [] i = 7 -> _step_7_follow_up_planning(s, context)
      [] OTHER -> ThoughtStep(i, "SYMPTOM_IDENTIFICATION", step_description,
                              "Additional analysis step", "Continuing systematic evaluation")

\* _analyze_symptoms_step_by_step: the steps, or the exception of step 4
_analyze_symptoms_step_by_step(s, context, reasoning_steps) ==
    LET comparison == IF Truthy(context) THEN AgeComparison(context) ELSE Ok(FALSE)
    IN  IF Len(reasoning_steps) >= 4 /\ ~comparison.ok THEN comparison
        ELSE Ok([i \in 1..Len(reasoning_steps) |->
                    ThoughtStepAt(s, context, i, reasoning_steps[i],
                                  comparison.ok /\ comparison.value)])

generate_chain_of_thought(s, context, type) ==
    LET thought_steps == _analyze_symptoms_step_by_step(s, context, TemplateSteps(type))
    IN  IF ~thought_steps.ok THEN thought_steps
        ELSE Ok([ reasoning_type |-> type,
                  thought_process |-> thought_steps.value,
                  final_response |->
                      _generate_response_from_reasoning(s, thought_steps.value, context),
                  reasoning_quality |-> _assess_reasoning_quality(thought_steps.value) ])

-----------------------------------------------------------------------------
(* generate_chain_of_thought applied to one symptoms text, one context and
   one reasoning_type *)

\* symptoms of every severity level of step 2, of every treatment level and
\* follow-up timeline, in either case
CotSymptoms ==
    { "", "I have a headache", "I have a headache, feel tired, and nauseous",
      "slight cough", "I have chest pain", ChestPainText,
      "mild headache with chest pain", "Severe Headache and stress",
      "I feel tired and can't sleep", "back pain for weeks",
      "Difficulty Breathing", "unbearable stomach ache", "chronic posture problems",
      "sometimes dizzy" }

\* user_context: absent, empty, with an age that is a str, a number over or
\* under fifty, and with the words steps 3 and 4 look for
CotContexts ==
    { None, PyDict(<< >>), TestContext,
      PyDict(<< Pair("age", PyInt(620)), Pair("medication", PyStr("aspirin")) >>),
      PyDict(<< Pair("job", PyStr("desk job")) >>),
      PyDict(<< Pair("age", PyInt(250)), Pair("lifestyle", PyStr("Computer programmer")) >>),
      PyDict(<< Pair("stress_level", PyStr("high")), Pair("age", PyInt(0)) >>),
      PyDict(<< Pair("age", PyStr("")) >>) }

\* the names of the templates, and names that are no template
ReasoningTypes == DOMAIN ReasoningTemplates \cup { "unknown", "SIMPLE_SYMPTOM" }

InitCot ==
    /\ pc = "ready"
    /\ fn = ""
    /\ symptoms \in CotSymptoms
    /\ duration = None
    /\ intensity = None
    /\ ai_response = << >>
    /\ response = None
    /\ dynamic_options = None
    /\ user_context \in CotContexts
    /\ response_type = ""
    /\ model = NoModel
    /\ client = None
    /\ invocations = << >>
    /\ NoServer
    /\ NoBmi
    /\ reasoning_type \in ReasoningTypes
    /\ NoCall
    /\ result = NoResult

GenerateChainOfThought ==
    /\ pc = "ready"
    /\ result' = Outcome(generate_chain_of_thought(symptoms, user_context, reasoning_type))
    /\ fn' = "generate_chain_of_thought"
    /\ pc' = "done"
    /\ UNCHANGED renderArgs

NextCot == GenerateChainOfThought

SpecCot == InitCot /\ [][NextCot]_vars

-----------------------------------------------------------------------------
(* Claims about generate_chain_of_thought, checked under SpecCot *)

\* the severity levels, least severe first
C21_Levels == << "mild", "moderate", "severe", "emergency" >>

C21_Rank(level) == CHOOSE i \in DOMAIN C21_Levels : C21_Levels[i] = level

\* the level step 2 assessed, read from its conclusion
C21_Assessed(step) ==
    CHOOSE level \in SeqRange(C21_Levels) :
        Contains(step.conclusion, "Severity assessment: " \o level \o ".")

\* the severity a diagnosis states: the most severe level word in its text
C21_Stated(diagnosis) ==
    LET stated == { i \in DOMAIN C21_Levels : Contains(diagnosis, C21_Levels[i]) }
    IN  CHOOSE i \in stated : \A j \in stated : j <= i

\* C21: whenever generate_chain_of_thought returns, its diagnosis states a
\* severity, and that severity is not less severe than the level step 2
\* assessed (mild < moderate < severe < emergency); in particular an input
\* assessed as emergency is not described as moderate or mild.
C21_DiagnosisNotBelowStep2 ==
    (Called("generate_chain_of_thought") /\ result.kind = "return") =>
        LET diagnosis == result.value.final_response.diagnosis
            assessed == C21_Assessed(result.value.thought_process[2])
        IN  /\ \E i \in DOMAIN C21_Levels : Contains(diagnosis, C21_Levels[i])
            /\ C21_Stated(diagnosis) >= C21_Rank(assessed)
            /\ assessed = "emergency" =>
                  ~(Contains(diagnosis, "moderate") \/ Contains(diagnosis, "mild"))

\* the result has seven steps, numbered 1 to 7 in order, one of every
\* ReasoningStep, and the quality figures that follow from it
C25_SevenSteps(value) ==
    /\ Len(value.thought_process) = 7
    /\ \A i \in 1..7 : value.thought_process[i].step_number = i
    /\ { value.thought_process[i].step_type : i \in 1..7 }
           = { PyEnum("ReasoningStep", name) : name \in SeqRange(ReasoningStep) }
    /\ value.reasoning_quality.completeness_score.n = 1000
    /\ value.reasoning_quality.coverage_score.n = 1000
    /\ value.reasoning_quality.total_steps = 7
    /\ value.reasoning_quality.reasoning_depth = "thorough"
    /\ value.reasoning_quality.quality_rating = "high"

\* C25: for every symptoms text, every context and every reasoning_type,
\* generate_chain_of_thought produces exactly 7 thought steps, numbered 1 to 7
\* in order, with 7 distinct step types covering every ReasoningStep, and
\* reasoning_quality is completeness_score 100, coverage_score 100,
\* total_steps 7, reasoning_depth "thorough", quality_rating "high".
C25_AlwaysSevenSteps ==
    Called("generate_chain_of_thought") =>
        /\ result.kind = "return"
        /\ C25_SevenSteps(result.value)

\* what does hold: every result that is returned has the seven steps
C25_SevenStepsWhenReturned ==
    (Called("generate_chain_of_thought") /\ result.kind = "return") =>
        C25_SevenSteps(result.value)

\* the text fields of a result
C30_Texts(value) ==
    UNION { { value.thought_process[i].thought, value.thought_process[i].reasoning,
              value.thought_process[i].conclusion } : i \in DOMAIN value.thought_process }
    \cup { value.final_response.roast, value.final_response.diagnosis,
           value.final_response.advice }

\* two outcomes that differ in nothing but the echoed label
C30_SameButLabel(a, b) ==
    /\ a.ok = b.ok
    /\ ~a.ok => a.exception = b.exception
    /\ a.ok => /\ a.value.thought_process = b.value.thought_process
               /\ a.value.final_response = b.value.final_response
               /\ a.value.reasoning_quality = b.value.reasoning_quality

\* C30: for the same symptoms and context, the outcome of
\* generate_chain_of_thought is the same for every reasoning_type, known or
\* unknown, except for the reasoning_type it echoes; and no stage description
\* of the selected template occurs in a text of the result.
C30_ReasoningTypeOnlyLabel ==
    Called("generate_chain_of_thought") =>
        /\ \A type \in ReasoningTypes :
              \E other \in { generate_chain_of_thought(symptoms, user_context, type) } :
                  /\ C30_SameButLabel(other,
                         IF result.kind = "return" THEN Ok(result.value)
                         ELSE [ok |-> FALSE, exception |-> result.exception])
                  /\ other.ok => other.value.reasoning_type = type
        /\ result.kind = "return" =>
              /\ result.value.reasoning_type = reasoning_type
              /\ \A text \in C30_Texts(result.value) :
                    \A d \in SeqRange(TemplateSteps(reasoning_type)) : ~Contains(text, d)

\* a call with a template other than the default one has returned
C30_Witness ==
    /\ Called("generate_chain_of_thought")
    /\ reasoning_type = "emergency_assessment"
    /\ result.kind = "return"
    /\ result.value.reasoning_type = "emergency_assessment"
    /\ Len(result.value.thought_process) = 7
    /\ result.value.thought_process[1].thought = "Patient reports: " \o symptoms

-----------------------------------------------------------------------------
(* function_calling.py: the registered functions applied to loosely typed
   arguments *)

IsStr(v) == ~IsNone(v) /\ v.py = "str"

\* the exceptions Python raises for an operation the operand does not have
NoAttribute(v, attribute) ==
    Raise("AttributeError",
          "'" \o TypeName(v) \o "' object has no attribute '" \o attribute \o "'")

NotSupported(operator, left, right) ==
    Raise("TypeError", "'" \o operator \o "' not supported between instances of '"
                       \o left \o "' and '" \o right \o "'")

UnsupportedOperand(operator, left, right) ==
    Raise("TypeError", "unsupported operand type(s) for " \o operator \o ": '"
                       \o left \o "' and '" \o right \o "'")

NotIterable(v) ==
    Raise("TypeError", "'" \o TypeName(v) \o "' object is not iterable")

UpperChar(c) ==
    IF \E i \in 1..26 : SubSeq(LowerAlphabet, i, i) = c
    THEN LET i == CHOOSE j \in 1..26 : SubSeq(LowerAlphabet, j, j) = c
         IN  SubSeq(UpperAlphabet, i, i)
    ELSE c

\* s.upper()
Upper(s) == Join("", [i \in 1..Len(s) |-> UpperChar(SubSeq(s, i, i))])

\* round(numerator / denominator) of two naturals, ties to the even neighbour
RoundHalfEven(numerator, denominator) ==
    LET q == numerator \div denominator
        r == numerator % denominator
    IN  IF 2 * r > denominator \/ (2 * r = denominator /\ q % 2 = 1) THEN q + 1 ELSE q

\* the concatenation of a sequence of sequences
RECURSIVE Concat(_)
Concat(seqs) == IF seqs = << >> THEN << >> ELSE Head(seqs) \o Concat(Tail(seqs))

\* analyze_symptom_severity with the arguments as they were passed
analyze_symptom_severity_of(s, d, n) ==
    IF ~IsStr(s) THEN NoAttribute(s, "lower")
    ELSE IF Truthy(d) /\ ~IsStr(d)
    THEN Raise("TypeError", "argument of type '" \o TypeName(d) \o "' is not iterable")
    ELSE IF Truthy(n) /\ ~IsNumber(n) THEN NotSupported(">=", TypeName(n), "int")
    ELSE Ok(analyze_symptom_severity(s.s,
                IF IsNone(d) THEN None ELSE Some(IF IsStr(d) THEN d.s ELSE ""),
                IF IsNone(n) THEN None ELSE Some(n.n \div 10)))

\* check_emergency_symptoms with the arguments as they were passed
check_emergency_symptoms_of(s, vital_signs) ==
    IF ~IsStr(s) THEN NoAttribute(s, "lower") ELSE Ok(check_emergency_symptoms(s.s))

\* calculate_bmi with the arguments as they were passed
calculate_bmi_of(weight, height) ==
    IF ~IsNumber(height) THEN { UnsupportedOperand("/", TypeName(height), "int") }
    ELSE IF ~IsNumber(weight)
    THEN { UnsupportedOperand("/", TypeName(weight), "float") }
    ELSE calculate_bmi(weight, height)

_identify_priority_areas(issues) ==
    When(Contains(issues, "pain"), << "Pain management" >>)
    \o When(Contains(issues, "stress"), << "Stress reduction" >>)
    \o When(Contains(issues, "sleep"), << "Sleep hygiene" >>)
    \o When(Contains(issues, "weight"), << "Weight management" >>)

get_lifestyle_recommendations(current_issues, age, activity_level, health_goals) ==
    IF ~IsStr(current_issues) THEN NoAttribute(current_issues, "lower")
    ELSE IF Truthy(age) /\ ~IsNumber(age) THEN NotSupported(">", TypeName(age), "int")
    ELSE
    LET issues_lower == Lower(current_issues.s)
        exercise ==
            IF Contains(issues_lower, "back pain") \/ Contains(issues_lower, "posture")
            THEN << "Strengthen core muscles", "Improve posture", "Regular stretching" >>
            ELSE IF Contains(issues_lower, "fatigue")
            THEN << "Light cardio", "Gradual activity increase", "Avoid overexertion" >>
            ELSE IF Contains(issues_lower, "stress") THEN << "Yoga", "Walking", "Swimming" >>
            ELSE << >>
        nutrition ==
            IF Contains(issues_lower, "headache")
            THEN << "Increase water intake", "Regular meals", "Limit caffeine" >>
            ELSE IF Contains(issues_lower, "digestive") \/ Contains(issues_lower, "stomach")
            THEN << "Smaller frequent meals", "Avoid trigger foods", "Increase fiber" >>
            ELSE << >>
        specific_advice ==
            IF ~Truthy(age) THEN << >>
            ELSE IF age.n > 500 THEN << "Regular health screenings recommended" >>
            ELSE IF age.n < 300 THEN << "Focus on building healthy habits early" >>
            ELSE << >>
    IN  Ok([ recommendations |->
                 [ exercise |-> exercise, nutrition |-> nutrition, sleep |-> << >>,
                   stress_management |-> << >>, specific_advice |-> specific_advice ],
             priority_areas |-> _identify_priority_areas(issues_lower),
             timeline |-> "2-4 weeks for initial improvements" ])

\* common_interactions of get_medication_interactions
common_interactions ==
    [ aspirin |-> << "warfarin", "ibuprofen", "alcohol" >>,
      ibuprofen |-> << "aspirin", "warfarin", "blood pressure medications" >>,
      acetaminophen |-> << "alcohol", "warfarin" >>,
      caffeine |-> << "anxiety medications", "sleep medications" >> ]

get_medication_interactions(current_medications, proposed_treatment) ==
    IF IsNone(current_medications) \/ current_medications.py # "list"
    THEN NotIterable(current_medications)
    ELSE
    LET meds == current_medications.items
    IN  IF \E i \in DOMAIN meds : ~IsStr(meds[i])
        THEN NoAttribute(meds[CHOOSE i \in DOMAIN meds :
                                  ~IsStr(meds[i]) /\ \A j \in 1..(i - 1) : IsStr(meds[j])],
                         "lower")
        ELSE
        LET potential_interactions ==
                Concat([i \in DOMAIN meds |->
                    IF Lower(meds[i].s) \in DOMAIN common_interactions
                    THEN Concat([j \in DOMAIN meds |->
                             When(InSeq(Lower(meds[j].s), common_interactions[Lower(meds[i].s)]),
                                  << meds[i].s \o " + " \o meds[j].s >>)])
                    ELSE << >>])
        IN  Ok([ interactions_found |-> Len(potential_interactions) > 0,
                 potential_interactions |-> potential_interactions,
                 warnings |-> When(Len(potential_interactions) > 0,
                                   << "Potential drug interactions detected",
                                      "Consult pharmacist or doctor before combining medications" >>),
                 recommendation |->
                     "Always consult healthcare provider before starting new medications" ])

\* quality_scores of assess_sleep_quality; .get(sleep_quality, 20)
QualityScore(sleep_quality) ==
    IF ~IsStr(sleep_quality) THEN 20
    ELSE CASE sleep_quality.s = "poor" -> 10
           [] sleep_quality.s = "fair" -> 20
           [] sleep_quality.s = "good" -> 30
           [] sleep_quality.s = "excellent" -> 40
           [] OTHER -> 20

assess_sleep_quality(sleep_hours, sleep_quality, bedtime, wake_time) ==
    IF ~IsNumber(sleep_hours) THEN NotSupported("<=", "int", TypeName(sleep_hours))
    ELSE IF Truthy(bedtime) /\ ~IsStr(bedtime) THEN NoAttribute(bedtime, "upper")
    ELSE
    LET in_range == 70 <= sleep_hours.n /\ sleep_hours.n <= 90
        sleep_score == (IF in_range THEN 40 ELSE 0) + QualityScore(sleep_quality)
    IN  Ok([ sleep_duration_rating |-> IF in_range THEN "good" ELSE "needs_improvement",
             recommendations |->
                 (IF in_range THEN << "Good sleep duration - maintain current schedule" >>
                  ELSE IF sleep_hours.n < 70 THEN << "Increase sleep duration to 7-9 hours" >>
                  ELSE << "Consider if you need that much sleep" >>)
                 \o When(IsStr(sleep_quality) /\ sleep_quality.s \in { "poor", "fair" },
                         << "Improve sleep hygiene", "Create consistent bedtime routine",
                            "Optimize sleep environment" >>)
                 \o When(Truthy(bedtime) /\ Contains(Upper(bedtime.s), "AM"),
                         << "Consider earlier bedtime for better sleep quality" >>),
             sleep_score |-> sleep_score,
             overall_rating |-> IF sleep_score >= 70 THEN "excellent"
                                ELSE IF sleep_score >= 50 THEN "good"
                                ELSE "needs_improvement" ])

\* plans of generate_exercise_plan
ExercisePlans ==
    [ beginner |-> [ cardio |-> "10-15 minutes walking",
                     strength |-> "Bodyweight exercises 2x/week",
                     flexibility |-> "5-10 minutes stretching daily" ],
      intermediate |-> [ cardio |-> "20-30 minutes moderate exercise",
                         strength |-> "Weight training 3x/week",
                         flexibility |-> "Yoga or stretching 15 minutes" ],
      advanced |-> [ cardio |-> "30-45 minutes varied intensity",
                     strength |-> "Progressive weight training 4x/week",
                     flexibility |-> "Dynamic stretching and mobility work" ] ]

generate_exercise_plan(fitness_level, health_goals, available_time) ==
    Ok([ weekly_plan |-> IF IsStr(fitness_level) /\ fitness_level.s \in DOMAIN ExercisePlans
                         THEN ExercisePlans[fitness_level.s] ELSE ExercisePlans["beginner"],
         progression_timeline |-> "2-4 weeks per level increase",
         safety_notes |-> << "Start slowly", "Listen to your body",
                             "Consult doctor if health concerns" >>,
         estimated_time |-> Str(available_time) \o " minutes per session" ])

check_symptom_duration(s, d) ==
    IF ~IsStr(d) THEN NoAttribute(d, "lower")
    ELSE
    LET duration_lower == Lower(d.s)
        timeline ==
            IF Contains(duration_lower, "hours") \/ Contains(duration_lower, "today")
            THEN "acute"
            ELSE IF Contains(duration_lower, "days") THEN "subacute"
            ELSE IF Contains(duration_lower, "weeks") \/ Contains(duration_lower, "months")
            THEN "chronic"
            ELSE "unclear"
    IN  Ok([ timeline_category |-> timeline,
             duration_concern |-> timeline = "chronic",
             advice |-> CASE timeline = "acute" -> "Monitor symptoms, self-care appropriate"
                          [] timeline = "subacute" ->
                                 "If symptoms persist beyond a week, consult healthcare provider"
                          [] timeline = "chronic" -> "Chronic symptoms warrant medical evaluation"
                          [] OTHER -> "Please specify how long you've had these symptoms",
             follow_up_recommended |-> timeline \in { "subacute", "chronic" } ])

get_age_specific_advice(age, s) ==
    IF ~IsNumber(age) THEN NotSupported("<", TypeName(age), "int")
    ELSE
    LET category == IF age.n < 180 THEN "pediatric"
                    ELSE IF age.n < 650 THEN "adult" ELSE "senior"
    IN  Ok([ age_category |-> category,
             considerations |->
                 CASE category = "pediatric" ->
                          << "Growth and development factors", "Dosage adjustments needed" >>
                   [] category = "adult" ->
                          << "Lifestyle factors important", "Preventive care recommended" >>
                   [] OTHER -> << "Multiple medications possible", "Fall risk considerations",
                                  "Cognitive factors" >>,
             advice |-> CASE category = "pediatric" -> "Consult pediatrician for proper evaluation"
                          [] category = "adult" -> "Standard adult health guidelines apply"
                          [] OTHER -> "Consider age-related health factors" ])

\* activity_multipliers of calculate_hydration_needs, in tenths, each with
\* int((multiplier - 1) * 100) as float arithmetic gives it: (1.2 - 1) * 100
\* is 19.999999999999996
ActivityMultiplier(activity_level) ==
    IF ~IsStr(activity_level) THEN [tenths |-> 12, percent |-> 19]
    ELSE CASE activity_level.s = "sedentary" -> [tenths |-> 10, percent |-> 0]
           [] activity_level.s = "moderate" -> [tenths |-> 12, percent |-> 19]
           [] activity_level.s = "active" -> [tenths |-> 15, percent |-> 50]
           [] activity_level.s = "very_active" -> [tenths |-> 18, percent |-> 80]
           [] OTHER -> [tenths |-> 12, percent |-> 19]

calculate_hydration_needs(weight, activity_level) ==
    IF IsNone(weight) THEN UnsupportedOperand("*", "NoneType", "int")
    ELSE IF ~IsNumber(weight)
    THEN Raise("TypeError", "can't multiply sequence by non-int of type 'float'")
    ELSE
    LET multiplier == ActivityMultiplier(activity_level)
        \* daily_water_ml times 100 (the weight and the multiplier are in tenths)
        daily_water == weight.n * 35 * multiplier.tenths
    IN  Ok([ daily_water_liters |-> PyFloat(RoundHalfEven(daily_water, 10000)),
             daily_water_glasses |-> PyInt(10 * RoundHalfEven(daily_water, 25000)),
             activity_adjustment |-> NatToStr(multiplier.percent) \o "% increase for "
                                     \o Str(activity_level) \o " lifestyle",
             hydration_tips |-> << "Drink water throughout the day", "Monitor urine color",
                                   "Increase intake in hot weather" >> ])

-----------------------------------------------------------------------------
(* function_calling.py: LaughRxFunctionCalling.call_function *)

\* a parameter that must be passed, and one with a default value
Required(name) == [name |-> name, required |-> TRUE, default |-> None]
Optional(name, default) == [name |-> name, required |-> FALSE, default |-> default]

\* self.available_functions: the registered names, each with the parameters
\* of the method it is bound to
available_functions ==
    [ analyze_symptom_severity |->
          << Required("symptoms"), Optional("duration", None), Optional("intensity", None) >>,
      get_lifestyle_recommendations |->
          << Required("current_issues"), Optional("age", None),
             Optional("activity_level", PyStr("moderate")), Optional("health_goals", None) >>,
      check_emergency_symptoms |->
          << Required("symptoms"), Optional("vital_signs", None) >>,
      calculate_bmi |-> << Required("weight_kg"), Required("height_cm") >>,
      get_medication_interactions |->
          << Required("current_medications"), Optional("proposed_treatment", None) >>,
      assess_sleep_quality |->
          << Required("sleep_hours"), Optional("sleep_quality", PyStr("fair")),
             Optional("bedtime", None), Optional("wake_time", None) >>,
      generate_exercise_plan |->
          << Optional("fitness_level", PyStr("beginner")),
             Optional("health_goals", PyStr("general_fitness")),
             Optional("available_time", PyInt(300)) >>,
      check_symptom_duration |-> << Required("symptoms"), Required("duration") >>,
      get_age_specific_advice |-> << Required("age"), Required("symptoms") >>,
      calculate_hydration_needs |->
          << Required("weight_kg"), Optional("activity_level", PyStr("moderate")) >> ]

HasKey(d, key) == \E i \in DOMAIN d.items : d.items[i].key = key

\* 'a' / 'a' and 'b' / 'a', 'b', and 'c'
QuotedNames(names) ==
    IF Len(names) = 1 THEN "'" \o names[1] \o "'"
    ELSE IF Len(names) = 2 THEN "'" \o names[1] \o "' and '" \o names[2] \o "'"
    ELSE Join(", ", [i \in 1..(Len(names) - 1) |-> "'" \o names[i] \o "'"])
         \o ", and '" \o names[Len(names)] \o "'"

\* the call `method(**kwargs)`: the arguments by parameter name, or the
\* TypeError of a keyword that is no parameter or of a missing argument
BindArguments(name, parameters, keywords) ==
    LET is_parameter(key) == \E i \in DOMAIN parameters : parameters[i].name = key
        unexpected == SelectSeq(keywords.items, LAMBDA item : ~is_parameter(item.key))
        missing == SelectSeq(parameters, LAMBDA p : p.required /\ ~HasKey(keywords, p.name))
    IN  IF Len(unexpected) > 0
        THEN Raise("TypeError", "LaughRxFunctionCalling." \o name
                       \o "() got an unexpected keyword argument '" \o unexpected[1].key \o "'")
        ELSE IF Len(missing) > 0
        THEN Raise("TypeError", "LaughRxFunctionCalling." \o name \o "() missing "
                       \o NatToStr(Len(missing)) \o " required positional argument"
                       \o (IF Len(missing) > 1 THEN "s" ELSE "") \o ": "
                       \o QuotedNames([i \in DOMAIN missing |-> missing[i].name]))
        ELSE Ok([i \in DOMAIN parameters |->
                    IF HasKey(keywords, parameters[i].name)
                    THEN Get(keywords, parameters[i].name) ELSE parameters[i].default])

\* the registered method applied to its arguments, in the order of its
\* parameters: the set of its possible outcomes
ApplyFunction(name, args) ==
    CASE name = "analyze_symptom_severity" ->
             { analyze_symptom_severity_of(args[1], args[2], args[3]) }
      [] name = "get_lifestyle_recommendations" ->
             { get_lifestyle_recommendations(args[1], args[2], args[3], args[4]) }
      [] name = "check_emergency_symptoms" -> { check_emergency_symptoms_of(args[1], args[2]) }
      [] name = "calculate_bmi" -> calculate_bmi_of(args[1], args[2])
      [] name = "get_medication_interactions" ->
             { get_medication_interactions(args[1], args[2]) }
      [] name = "assess_sleep_quality" ->
             { assess_sleep_quality(args[1], args[2], args[3], args[4]) }
      [] name = "generate_exercise_plan" -> { generate_exercise_plan(args[1], args[2], args[3]) }
      [] name = "check_symptom_duration" -> { check_symptom_duration(args[1], args[2]) }
      [] name = "get_age_specific_advice" -> { get_age_specific_advice(args[1], args[2]) }
      [] name = "calculate_hydration_needs" -> { calculate_hydration_needs(args[1], args[2]) }

\* self.available_functions[function_name](**kwargs): the set of outcomes
InvokeFunction(name, keywords) ==
    LET bound == BindArguments(name, available_functions[name], keywords)
    IN  IF bound.ok THEN ApplyFunction(name, bound.value) ELSE { bound }

\* the except clause of call_function
ErrorCalling(name, outcome) ==
    Ok([error |-> "Error calling " \o name \o ": " \o outcome.exception.msg])

\* call_function(function_name, **kwargs): the set of its possible outcomes.
\* A keyword named like a parameter of call_function itself collides with it
\* when the call is made.
call_function(name, keywords) ==
    IF HasKey(keywords, "self") \/ HasKey(keywords, "function_name")
    THEN { Raise("TypeError",
                 "LaughRxFunctionCalling.call_function() got multiple values for argument '"
                 \o (IF HasKey(keywords, "self") THEN "self" ELSE "function_name") \o "'") }
    ELSE IF name \notin DOMAIN available_functions
    THEN { Ok([error |-> "Function " \o name \o " not found"]) }
    ELSE { IF outcome.ok
           THEN Ok([success |-> TRUE, result |-> outcome.value, function_called |-> name])
           ELSE ErrorCalling(name, outcome) :
           outcome \in InvokeFunction(name, keywords) }

-----------------------------------------------------------------------------
(* call_function applied to one function name and one set of keyword
   arguments *)

\* the registered names, and names that are not registered: unknown ones, the
\* empty name, a method that is not registered, another spelling
FunctionNames ==
    DOMAIN available_functions
    \cup { "unknown_function", "", "_get_emergency_actions", "call_function", "Calculate_BMI" }

\* keyword arguments: those of the calls of demonstrate_function_calling,
\* well-typed arguments of every registered function, arguments of the wrong
\* type, missing and unknown arguments, and the names of call_function's own
\* parameters
KeywordArguments ==
    { PyDict(items) : items \in {
        << >>,
        << Pair("symptoms", PyStr("severe headache and nausea")),
           Pair("duration", PyStr("2 days")), Pair("intensity", PyInt(80)) >>,
        << Pair("weight_kg", PyInt(700)), Pair("height_cm", PyInt(1750)) >>,
        << Pair("symptoms", PyStr("chest pain and shortness of breath")) >>,
        << Pair("sleep_hours", PyInt(50)), Pair("sleep_quality", PyStr("poor")),
           Pair("bedtime", PyStr("1 AM")) >>,
        << Pair("weight_kg", PyInt(700)), Pair("height_cm", PyInt(0)) >>,
        << Pair("height_cm", PyInt(1750)), Pair("weight_kg", PyStr("70")) >>,
        << Pair("weight_kg", PyInt(700)) >>,
        << Pair("weight_kg", PyInt(820)), Pair("activity_level", PyStr("active")) >>,
        << Pair("weight_kg", PyStr("70")) >>,
        << Pair("symptoms", PyStr("I have a headache")), Pair("duration", PyStr("3 weeks")) >>,
        << Pair("symptoms", PyStr("I have a headache")), Pair("duration", PyInt(30)) >>,
        << Pair("symptoms", None) >>,
        << Pair("age", PyInt(300)), Pair("symptoms", PyStr("headache")) >>,
        << Pair("symptoms", PyStr("headache")), Pair("age", PyInt(700)) >>,
        << Pair("age", PyStr("30")), Pair("symptoms", PyStr("headache")) >>,
        << Pair("current_issues", PyStr("Back pain and stress")), Pair("age", PyInt(620)) >>,
        << Pair("current_issues", PyStr("headache, poor sleep")), Pair("age", PyStr("62")) >>,
        << Pair("current_medications", PyList(<< PyStr("Aspirin"), PyStr("ibuprofen") >>)) >>,
        << Pair("current_medications", PyList(<< PyStr("caffeine") >>)),
           Pair("proposed_treatment", PyStr("rest")) >>,
        << Pair("current_medications", None) >>,
        << Pair("sleep_hours", PyInt(80)) >>,
        << Pair("sleep_hours", PyStr("8")) >>,
        << Pair("fitness_level", PyStr("advanced")), Pair("available_time", PyInt(450)) >>,
        << Pair("symptoms", PyStr("headache")), Pair("severity", PyStr("high")) >>,
        << Pair("symptoms", PyStr("headache")), Pair("function_name", PyStr("calculate_bmi")) >>,
        << Pair("self", None), Pair("weight_kg", PyInt(700)), Pair("height_cm", PyInt(1750)) >> } }

InitCall ==
    /\ pc = "ready"
    /\ fn = ""
    /\ symptoms = ""
    /\ duration = None
    /\ intensity = None
    /\ ai_response = << >>
    /\ response = None
    /\ NoGenerate
    /\ NoServer
    /\ NoBmi
    /\ NoCot
    /\ function_name \in FunctionNames
    /\ kwargs \in KeywordArguments
    /\ result = NoResult

CallFunction ==
    /\ pc = "ready"
    /\ \E outcome \in call_function(function_name, kwargs) : result' = Outcome(outcome)
    /\ fn' = "call_function"
    /\ pc' = "done"
    /\ UNCHANGED renderArgs

NextCall == CallFunction

SpecCall == InitCall /\ [][NextCall]_vars

-----------------------------------------------------------------------------
(* Claims about call_function, checked under SpecCall *)

\* the dict call_function is to return for the call of the state: the "not
\* found" error for an unregistered name, an error for a registered function
\* that raises, the function's result otherwise
C23_Contained(value) ==
    IF function_name \notin DOMAIN available_functions
    THEN value = [error |-> "Function " \o function_name \o " not found"]
    ELSE \E outcome \in InvokeFunction(function_name, kwargs) :
             IF outcome.ok
             THEN value = [success |-> TRUE, result |-> outcome.value,
                           function_called |-> function_name]
             ELSE DOMAIN value = { "error" }

\* C23: call_function never raises, for every function name and every keyword
\* arguments: an unregistered name returns {'error': 'Function <name> not
\* found'}, a registered function that raises returns a dict with an 'error'
\* key, and otherwise the result is success = true, the function's result and
\* function_called equal to the requested name.
C23_NeverRaises ==
    Called("call_function") =>
        /\ result.kind = "return"
        /\ C23_Contained(result.value)

\* what does hold: the same, for keyword arguments that do not use the names
\* of call_function's own parameters
C23_NeverRaisesWithoutCollision ==
    (Called("call_function") /\ ~HasKey(kwargs, "self") /\ ~HasKey(kwargs, "function_name")) =>
        /\ result.kind = "return"
        /\ C23_Contained(result.value)

-----------------------------------------------------------------------------
(* Several generate_response requests made to one LaughRxAISimple client *)

MaxInvocations == 2

\* dynamic_options of a request: none, overrides of the system prompt and of
\* the stop sequences, other options, and options that fail the request
RequestOptions ==
    { None,
      PyDict(<< Pair("tone", PyStr("gentle")) >>),
      PyDict(<< Pair("system_override", PyStr("You are a serious triage nurse.")) >>),
      PyDict(<< Pair("stop_sequences", PyList(<< PyStr("ADVICE") >>)) >>),
      PyDict(<< Pair("stop_sequences", PyList(<< >>)) >>),
      PyDict(<< Pair("system_override", PyStr("Answer in one word.")),
                Pair("stop_sequences", PyList(<< PyStr("ROAST"), PyStr("END") >>)) >>),
      PyDict(<< Pair("system_override", PyStr("You are a pirate.")),
                Pair("examples", PyInt(10)) >>) }

\* the hosted model answers, fails, or returns a blocked response
RequestModels ==
    { [outcome |-> "text", detail |-> "ROAST: screens again? DIAGNOSIS: tension headache. ADVICE: drink water."],
      [outcome |-> "error", detail |-> "503 failed to connect to all addresses"],
      [outcome |-> "blocked", detail |-> "finish_reason is SAFETY"] }

\* a mutant of ClientAfterRequest: the overrides of the request are kept in
\* the client
ClientKeepingOverrides(self, options) ==
    LET opts == IF Truthy(options) /\ options.py = "dict" THEN options ELSE PyDict(<< >>)
        stops == Get(opts, "stop_sequences")
    IN  [self EXCEPT
            !.system_prompt = IF Truthy(Get(opts, "system_override"))
                              THEN Str(Get(opts, "system_override")) ELSE @,
            !.stop_sequences_default =
                IF Truthy(stops) /\ stops.py = "list"
                THEN [i \in DOMAIN stops.items |-> Str(stops.items[i])] ELSE @]

\* the client after generate_response: the method assigns to local names
\* only (system_prompt, stop_sequences, ...), never to an attribute of self
ClientAfterRequest(self, options) == self

InitRequests ==
    /\ pc = "ready"
    /\ fn = ""
    /\ symptoms = ""
    /\ duration = None
    /\ intensity = None
    /\ ai_response = << >>
    /\ response = None
    /\ dynamic_options = None
    /\ user_context = None
    /\ response_type = ""
    /\ model = NoModel
    /\ env \in GenerateEnvs
    /\ client = LaughRxAISimple(env).value
    /\ invocations = << >>
    /\ responses = << >>
    /\ NoBmi
    /\ NoCot
    /\ NoCall
    /\ result = NoResult

\* one more LaughRxAISimple.generate_response(symptoms, dynamic_options) on
\* the same client
SimpleRequest ==
    /\ Len(invocations) < MaxInvocations
    /\ \E s \in { "I have a headache", ChestPainText }, options \in RequestOptions,
          m \in RequestModels :
          LET call == Simple_generate_response(client, s, options, m)
          IN  /\ symptoms' = s
              /\ dynamic_options' = options
              /\ model' = m
              /\ invocations' = invocations \o call.invoked
              /\ result' = call.outcome
              /\ client' = ClientAfterRequest(client, options)
    /\ fn' = "LaughRxAISimple.generate_response"
    /\ pc' = "done"
    /\ UNCHANGED <<serverVars, bmiArgs, cotArgs, callArgs, severityArgs, parseVars,
                   user_context, response_type>>

NextRequests == SimpleRequest

SpecRequests == InitRequests /\ [][NextRequests]_vars

-----------------------------------------------------------------------------
(* Claims about requests sharing a client, checked under SpecRequests *)

\* the dynamic_options of the latest request override the named option
C27_Overrides(key) ==
    /\ Truthy(dynamic_options)
    /\ dynamic_options.py = "dict"
    /\ Truthy(Get(dynamic_options, key))

\* the stop sequences and the system prompt the client was configured with
C27_DefaultStops ==
    LET configured == LaughRxAISimple(env).value.stop_sequences_default
    IN  IF Len(configured) > 0 THEN PyList([i \in DOMAIN configured |-> PyStr(configured[i])])
        ELSE None

C27_StartsWith(text, prefix) ==
    Len(text) >= Len(prefix) /\ SubSeq(text, 1, Len(prefix)) = prefix

\* C27: whatever requests were made before and however they ended, the client
\* still has the top_p, top_k, stop_sequences_default and system_prompt it
\* was constructed with; the latest request ends as it would on a freshly
\* constructed client; when it reached the model, it was invoked with its own
\* stop_sequences and system_override if it has them, and otherwise with the
\* configured default stop sequences (None when there are none) and the
\* default system prompt.
C27_RequestsShareNoState ==
    LET fresh == LaughRxAISimple(env).value
    IN  /\ client = fresh
        /\ Called("LaughRxAISimple.generate_response") =>
              \E alone \in { Simple_generate_response(fresh, symptoms, dynamic_options, model) } :
                  /\ result = alone.outcome
                  /\ Len(invocations) >= Len(alone.invoked)
                  /\ SubSeq(invocations, Len(invocations) - Len(alone.invoked) + 1,
                            Len(invocations)) = alone.invoked
                  /\ alone.invoked # << >> =>
                        LET last == invocations[Len(invocations)]
                        IN  /\ last.generation_config.top_p = fresh.top_p
                            /\ last.generation_config.top_k = fresh.top_k
                            /\ last.generation_config.stop_sequences =
                                   IF C27_Overrides("stop_sequences")
                                   THEN Get(dynamic_options, "stop_sequences")
                                   ELSE C27_DefaultStops
                            /\ C27_StartsWith(last.prompt,
                                   IF C27_Overrides("system_override")
                                   THEN Str(Get(dynamic_options, "system_override"))
                                   ELSE SimpleSystemPrompt)

\* a request without overrides reached the model after a request that
\* overrode the stop sequences and the system prompt
C27_Witness ==
    /\ Called("LaughRxAISimple.generate_response")
    /\ Len(invocations) = 2
    /\ invocations[1].generation_config.stop_sequences
           = PyList(<< PyStr("ROAST"), PyStr("END") >>)
    /\ C27_StartsWith(invocations[1].prompt, "Answer in one word.")
    /\ dynamic_options = None
    /\ invocations[2].generation_config.stop_sequences = C27_DefaultStops
    /\ C27_StartsWith(invocations[2].prompt, SimpleSystemPrompt)
    /\ result.value.success

-----------------------------------------------------------------------------
(* Claims about the request's user_context, checked under SpecServer *)

\* the user_context values of the requests
C29_Contexts == { body.user_context : body \in RequestBodies }

\* C29: the response of /analyze and the prompt sent to the model are those
\* of the same symptoms with any other user_context (or none), for the same
\* client and the same behaviour of the model; the prompt does not mention
\* the context.
C29_UserContextIgnored ==
    LastHandled("/analyze") =>
        LET last == responses[Len(responses)]
        IN  \A context \in C29_Contexts :
                \E other \in { [symptoms |-> last.request.symptoms.some,
                                user_context |-> context] } :
                \E call \in { generate_for(client, other, model) } :
                    /\ \E rendering \in HTTPExceptionRenderings :
                          \E handled \in { analyze_symptoms(client, other, call, rendering) } :
                              /\ handled.response.status = last.status
                              /\ handled.response.body = last.body
                    /\ Len(invocations) >= Len(call.invoked)
                    /\ SubSeq(invocations, Len(invocations) - Len(call.invoked) + 1,
                              Len(invocations)) = call.invoked
                    /\ \A i \in DOMAIN call.invoked :
                          ~Contains(call.invoked[i].prompt, "User context")

\* /analyze answered a request that carries a user_context, after asking the
\* model
C29_Witness ==
    /\ LastHandled("/analyze")
    /\ responses[Len(responses)].request.user_context = TestContext
    /\ responses[Len(responses)].status = 200
    /\ invocations # << >>
    /\ invocations[Len(invocations)].prompt
           = SimpleSystemPrompt \o "\n\nUser symptoms: I have a headache"
                 \o "\n\nPlease respond in the LaughRx format:"

====
